---- MODULE Spec2Model ----
(***************************************************************************)
(* Model of the report-rewards tool (src/src/constants.js): one run of      *)
(* main(), from connecting to the chain to the final report or error, with  *)
(* the chain, the indexer and the environment variables as inputs.          *)
(***************************************************************************)
EXTENDS Integers, Sequences, FiniteSets, TLC

(***************************************************************************)
(* Bounds of the model.                                                     *)
(***************************************************************************)
\* index of the active reward period when the run starts
CurrentIndex == 3
\* number of blocks of a reward period
PeriodLength == 3
\* how many periods the chain head may advance while the run is in progress
MaxAdvance == 1
\* how many chain queries of a run may fail for a transient reason
MaxFailures == 1

(***************************************************************************)
(* Program constants.                                                       *)
(***************************************************************************)
\* const searchRange = 50
searchRange == 50
\* searchEndBlock = searchStartBlock + 2000
IndexerWindow == 2000

(***************************************************************************)
(* bn.js big integers.  A BN is a sign and a magnitude; the magnitude is a  *)
(* little-endian sequence of limbs in base LimbBase without leading zero    *)
(* limbs, so values are unbounded as in the library.                        *)
(***************************************************************************)
LimbBase == 1000000

BNZero == [neg |-> FALSE, mag |-> << >>]

RECURSIVE Strip(_)
Strip(mag) ==
    IF mag = << >> THEN << >>
    ELSE IF mag[Len(mag)] = 0 THEN Strip(SubSeq(mag, 1, Len(mag) - 1))
    ELSE mag

\* a non-negative machine integer as a BN
RECURSIVE MagOf(_)
MagOf(n) == IF n = 0 THEN << >> ELSE <<n % LimbBase>> \o MagOf(n \div LimbBase)

BNOf(n) == IF n < 0 THEN [neg |-> TRUE, mag |-> MagOf(-n)]
                    ELSE [neg |-> FALSE, mag |-> MagOf(n)]

Limb(mag, i) == IF i <= Len(mag) THEN mag[i] ELSE 0

\* -1, 0, 1 as |a| <, =, > |b|
RECURSIVE MagCmpFrom(_, _, _)
MagCmpFrom(a, b, i) ==
    IF i = 0 THEN 0
    ELSE IF a[i] < b[i] THEN -1
    ELSE IF a[i] > b[i] THEN 1
    ELSE MagCmpFrom(a, b, i - 1)

MagCmp(a, b) ==
    IF Len(a) < Len(b) THEN -1
    ELSE IF Len(a) > Len(b) THEN 1
    ELSE MagCmpFrom(a, b, Len(a))

RECURSIVE MagAddFrom(_, _, _, _)
MagAddFrom(a, b, i, carry) ==
    IF i > Len(a) /\ i > Len(b)
    THEN IF carry = 0 THEN << >> ELSE <<carry>>
    ELSE LET t == Limb(a, i) + Limb(b, i) + carry
         IN  <<t % LimbBase>> \o MagAddFrom(a, b, i + 1, t \div LimbBase)

MagAdd(a, b) == MagAddFrom(a, b, 1, 0)

\* |a| - |b| for |a| >= |b|
RECURSIVE MagSubFrom(_, _, _, _)
MagSubFrom(a, b, i, borrow) ==
    IF i > Len(a) THEN << >>
    ELSE LET t == a[i] - Limb(b, i) - borrow
         IN  IF t < 0 THEN <<t + LimbBase>> \o MagSubFrom(a, b, i + 1, 1)
                      ELSE <<t>> \o MagSubFrom(a, b, i + 1, 0)

MagSub(a, b) == Strip(MagSubFrom(a, b, 1, 0))

\* BN.prototype.sub: never clamps, the sign follows the larger magnitude
BNSub(x, y) ==
    IF x.neg # y.neg
    THEN [neg |-> x.neg, mag |-> MagAdd(x.mag, y.mag)]
    ELSE LET c == MagCmp(x.mag, y.mag)
         IN  IF c = 0 THEN BNZero
             ELSE IF c > 0 THEN [neg |-> x.neg, mag |-> MagSub(x.mag, y.mag)]
             ELSE [neg |-> ~x.neg, mag |-> MagSub(y.mag, x.mag)]

BNIsZero(x) == x.mag = << >>

\* BN.prototype.gt(new BN(0))
BNGtZero(x) == ~x.neg /\ ~BNIsZero(x)

NormSign(neg, mag) == [neg |-> neg /\ mag # << >>, mag |-> mag]

\* x.div(10^(6k)): truncating division drops the k low limbs
BNDivLimbs(x, k) ==
    NormSign(x.neg, IF Len(x.mag) <= k THEN << >> ELSE SubSeq(x.mag, k + 1, Len(x.mag)))

\* x.mod(10^(6k)): the remainder keeps the sign of the dividend
BNModLimbs(x, k) ==
    NormSign(x.neg, Strip(IF Len(x.mag) <= k THEN x.mag ELSE SubSeq(x.mag, 1, k)))

(***************************************************************************)
(* JavaScript numbers.  votes / eligibleRounds * 100 and parseFloat are     *)
(* IEEE-754 double operations, each rounded to nearest, ties to even.  A    *)
(* double is a sign and either zero or a 53-bit mantissa m with the         *)
(* exponent e of its last bit: the value is m * 2^e.  The mantissa is held  *)
(* as four limbs, most significant first: 5 bits (16 .. 31, the leading bit *)
(* set), then three times 16 bits.                                          *)
(***************************************************************************)
Word == 65536

DZero(neg) == [neg |-> neg, zero |-> TRUE, m |-> <<0, 0, 0, 0>>, e |-> 0]

\* m + 1; past the 53 bits the mantissa is 2^52 and the exponent one higher
IncMantissa(m) ==
    IF m[4] + 1 < Word THEN [m |-> <<m[1], m[2], m[3], m[4] + 1>>, e |-> 0]
    ELSE IF m[3] + 1 < Word THEN [m |-> <<m[1], m[2], m[3] + 1, 0>>, e |-> 0]
    ELSE IF m[2] + 1 < Word THEN [m |-> <<m[1], m[2] + 1, 0, 0>>, e |-> 0]
    ELSE IF m[1] + 1 < 32 THEN [m |-> <<m[1] + 1, 0, 0, 0>>, e |-> 0]
    ELSE [m |-> <<16, 0, 0, 0>>, e |-> 1]

\* the double nearest to (m + guard/2 + a smaller non-zero tail when sticky) * 2^e
RoundToDouble(neg, m, guard, sticky, e) ==
    LET up  == guard = 1 /\ (sticky \/ m[4] % 2 = 1)
        inc == IncMantissa(m)
    IN  IF up THEN [neg |-> neg, zero |-> FALSE, m |-> inc.m, e |-> e + inc.e]
        ELSE [neg |-> neg, zero |-> FALSE, m |-> m, e |-> e]

\* scale v / d to [1, 2): the result has d <= v < 2d and v/d * 2^k unchanged
RECURSIVE Normalise(_, _, _)
Normalise(v, d, k) ==
    IF v >= 2 * d THEN Normalise(v, 2 * d, k + 1)
    ELSE IF v < d THEN Normalise(2 * v, d, k - 1)
    ELSE [v |-> v, d |-> d, k |-> k]

\* the next n bits of the binary expansion of r / d (r < d), and the remainder
DivBits(r, d, n) == [q |-> (r * 2^n) \div d, rem |-> (r * 2^n) % d]

Abs(n) == IF n < 0 THEN -n ELSE n

\* a / b in double arithmetic, for integers a and b # 0
FDiv(a, b) ==
    LET neg == (a < 0) # (b < 0)
    IN  IF a = 0 THEN DZero(b < 0)
        ELSE LET n  == Normalise(Abs(a), Abs(b), 0)
                 q1 == DivBits(n.v - n.d, n.d, 4)
                 q2 == DivBits(q1.rem, n.d, 16)
                 q3 == DivBits(q2.rem, n.d, 16)
                 q4 == DivBits(q3.rem, n.d, 16)
                 g  == DivBits(q4.rem, n.d, 1)
             IN  RoundToDouble(neg, <<16 + q1.q, q2.q, q3.q, q4.q>>, g.q, g.rem # 0,
                               n.k - 52)

\* x * 100 in double arithmetic: the exact product has 6 or 7 bits too many
FMul100(x) ==
    IF x.zero THEN x
    ELSE LET p4 == x.m[4] * 100
             p3 == x.m[3] * 100 + p4 \div Word
             p2 == x.m[2] * 100 + p3 \div Word
             p1 == x.m[1] * 100 + p2 \div Word
             s  == IF p1 >= 2048 THEN 7 ELSE 6
             lo == 2^s
             hi == 2^(16 - s)
             l2 == p2 % Word
             l3 == p3 % Word
             l4 == p4 % Word
             dropped == l4 % lo
         IN  RoundToDouble(x.neg,
                           <<p1 \div lo,
                             (p1 % lo) * hi + l2 \div lo,
                             (l2 % lo) * hi + l3 \div lo,
                             (l3 % lo) * hi + l4 \div lo>>,
                           dropped \div 2^(s - 1),
                           dropped % 2^(s - 1) # 0,
                           x.e + s)

\* |x| >= |y| for non-zero doubles
DMagGe(x, y) ==
    IF x.e # y.e THEN x.e > y.e
    ELSE LET differ == {i \in 1 .. 4 : x.m[i] # y.m[i]}
             first  == CHOOSE i \in differ : \A j \in differ : i <= j
         IN  differ = {} \/ x.m[first] > y.m[first]

\* x >= y on doubles
FGe(x, y) ==
    IF x.zero /\ y.zero THEN TRUE
    ELSE IF x.zero THEN y.neg
    ELSE IF y.zero THEN ~x.neg
    ELSE IF x.neg # y.neg THEN y.neg
    ELSE IF x.neg THEN DMagGe(y, x)
    ELSE DMagGe(x, y)

\* parseFloat of a decimal string with two fraction digits ("60.00"), given
\* as its value in hundredths: the double nearest to hundredths / 100
ParseFloatHundredths(hundredths) == FDiv(hundredths, 100)

(***************************************************************************)
(* Strings of the environment and of decoded chain values.                  *)
(***************************************************************************)
\* process.env.X of a variable that is not set
Unset == "<unset>"

\* String.prototype.trim on the strings of the model
Trim(s) == IF s = "  " THEN "" ELSE s

\* !s of JavaScript for a string or undefined
Falsy(s) == s = Unset \/ s = ""

DigitValue(c) ==
    CASE c = "0" -> 0 [] c = "1" -> 1 [] c = "2" -> 2 [] c = "3" -> 3
      [] c = "4" -> 4 [] c = "5" -> 5 [] c = "6" -> 6 [] c = "7" -> 7
      [] c = "8" -> 8 [] c = "9" -> 9 [] OTHER -> -1

\* parseInt(str): the leading decimal digits of a sequence of characters
RECURSIVE ParseIntFrom(_, _, _)
ParseIntFrom(str, i, acc) ==
    IF i > Len(str) \/ DigitValue(str[i]) < 0 THEN acc
    ELSE ParseIntFrom(str, i + 1, acc * 10 + DigitValue(str[i]))

parseInt(str) == ParseIntFrom(str, 1, 0)

\* stake.toString().replace(/,/g, "")
RECURSIVE RemoveCommas(_)
RemoveCommas(str) ==
    IF str = << >> THEN << >>
    ELSE IF Head(str) = "," THEN RemoveCommas(Tail(str))
    ELSE <<Head(str)>> \o RemoveCommas(Tail(str))

\* new BN(decimal string), for the stake amounts of the model
ParseStake(stake) == parseInt(RemoveCommas(stake))

(***************************************************************************)
(* Block hashes.  A hash is opaque; the hash of block n is <<"0x", n>>.     *)
(* chain_getBlockHash answers the zero hash for a block that does not       *)
(* exist, and no state can be read at a hash that names no block.           *)
(***************************************************************************)
HashOf(n) == <<"0x", n>>
ZeroHash == <<"0x", -1>>
NumberOf(hash) == hash[2]
Undefined == << >>
Null == [null |-> TRUE]

(***************************************************************************)
(* The state of one run.                                                    *)
(***************************************************************************)
VARIABLES
    env,     \* REWARD_PERIOD_INDEX, GROUP_NAMESPACE, ADDRESS, SPECIFIC_BLOCK_HASH, INDEXER_URL
    chain,   \* the chain the node serves: period geometry and event layout
    head,    \* periods the chain head has advanced since the run started
    pc,      \* position of main()
    api,     \* "none", "connected", "disconnected"
    loc,     \* locals of the function being executed
    main,    \* locals of main()
    error,   \* the error caught by main()'s catch block
    report,  \* the report printed by step 5 of main()
    reads,   \* the chain and indexer requests issued so far: who asked for what
    failures, \* transient query failures so far
    storage, \* the storage of the initial block, once the run has read it
    hist     \* what has happened in the run: validation passed, the indexer's
             \* answer, why Strategy B was given up, which strategy found the block

vars == <<env, chain, head, pc, api, loc, main, error, report, reads, failures, storage,
         hist>>

NoError == [kind |-> "none", cause |-> "none"]
Err(kind, cause) == [kind |-> kind, cause |-> cause]
NoLocals == [fn |-> "none"]

(***************************************************************************)
(* The chain.  Period q starts at firstBlock - (index - q) * length; the    *)
(* distribution event RewardsCalculatedForPeriod(q) is recorded in period   *)
(* q + 1 at the offsets distOffs; EarnedRewardCalculated events fill the    *)
(* earnedLen blocks before the distribution block of the active period.     *)
(***************************************************************************)
ActivePeriod(a) ==
    [index      |-> chain.index + a,
     firstBlock |-> chain.firstBlock + a * chain.length,
     length     |-> chain.length]

HeadBlock(a) == ActivePeriod(a).firstBlock + chain.length - 1

PeriodContaining(b) ==
    chain.index + ((b - chain.firstBlock) \div chain.length)

PeriodAt(b) ==
    LET q == PeriodContaining(b)
    IN  [index      |-> q,
         firstBlock |-> chain.firstBlock - (chain.index - q) * chain.length,
         length     |-> chain.length]

RewardsCalculatedAt(b) ==
    IF (b - PeriodAt(b).firstBlock) \in chain.distOffs /\ PeriodContaining(b) >= 1
    THEN {[section |-> "workerNodePallet", method |-> "RewardsCalculatedForPeriod",
           data |-> PeriodContaining(b) - 1]}
    ELSE {}

Min(S) == CHOOSE x \in S : \A y \in S : x <= y
Max(S) == CHOOSE x \in S : \A y \in S : x >= y

EarnedAnchor ==
    chain.firstBlock + (IF chain.distOffs = {} THEN 0 ELSE Min(chain.distOffs))

EarnedRewardAt(b) ==
    IF EarnedAnchor - chain.earnedLen <= b /\ b < EarnedAnchor
    THEN {[section |-> "workerNodePallet", method |-> "EarnedRewardCalculated",
           data |-> 0]}
    ELSE {}

\* api.query.system.events.at(hash), when the query succeeds
EventsAt(b) == RewardsCalculatedAt(b) \cup EarnedRewardAt(b)

\* does a block with this hash exist when the head has advanced a periods
Exists(hash, a) == NumberOf(hash) >= 0 /\ NumberOf(hash) <= HeadBlock(a)

\* api.rpc.chain.getBlockHash(n), when the call succeeds (n >= 0)
getBlockHash(n, a) == IF n <= HeadBlock(a) THEN HashOf(n) ELSE ZeroHash

Read(fn, op) == [fn |-> fn, op |-> op]
Log(entry) == reads' = reads \cup {entry}

(***************************************************************************)
(* Inputs.                                                                  *)
(***************************************************************************)
NotANumber == [nan |-> TRUE, val |-> 0, half |-> FALSE]
Num(n) == [nan |-> FALSE, val |-> n, half |-> FALSE]
\* the number n + 0.5
Half(n) == [nan |-> FALSE, val |-> n, half |-> TRUE]

\* Number(process.env.REWARD_PERIOD_INDEX): NaN, the integers up to the period
\* after the active one, and a number that is not an integer and lies after
\* every period the chain reaches
PeriodInputs ==
    {NotANumber} \cup {Num(n) : n \in 0 .. CurrentIndex + 1}
        \cup {Half(CurrentIndex + MaxAdvance + 1)}

NamespaceInputs == {Unset, "  ", "smartflow.v2"}
AddressInputs == {Unset, "  ", "5D2csUmB"}
IndexerInputs == {Unset, "https://indexer/graphql"}

FirstBlocks ==
    {PeriodLength,
     CurrentIndex * PeriodLength,
     CurrentIndex * PeriodLength + searchRange + 10}

DistOffsets == {{}, {0}, {PeriodLength - 1}, {0, PeriodLength - 1}}

EarnedLengths == {0, 2, searchRange - 1, searchRange + 1}

Chain(firstBlock, distOffs, earnedLen) ==
    [length |-> PeriodLength, index |-> CurrentIndex, firstBlock |-> firstBlock,
     distOffs |-> distOffs, earnedLen |-> earnedLen]

\* each geometry, each event layout and each length of the run of
\* EarnedRewardCalculated blocks, the other two at a common value
Chains ==
    {Chain(f, {PeriodLength - 1}, 2) : f \in FirstBlocks}
    \cup {Chain(CurrentIndex * PeriodLength + searchRange + 10, d, 2) : d \in DistOffsets}
    \cup {Chain(CurrentIndex * PeriodLength + searchRange + 10, {PeriodLength - 1}, k) :
              k \in EarnedLengths}
    \cup {Chain(CurrentIndex * PeriodLength, {0}, searchRange + 1)}

PinnedInputs(c) ==
    {Undefined, HashOf(c.firstBlock), HashOf(c.firstBlock + c.length - 1),
     HashOf(c.firstBlock + 5 * c.length)}

\* the environment of a run; the locator settings vary in the runs whose
\* parameters pass validation
ValidParameters(e) ==
    /\ ~e.REWARD_PERIOD_INDEX.nan /\ e.REWARD_PERIOD_INDEX.val > 0
    /\ ~Falsy(e.GROUP_NAMESPACE) /\ Trim(e.GROUP_NAMESPACE) # ""
    /\ ~Falsy(e.ADDRESS) /\ Trim(e.ADDRESS) # ""

EnvInputs(c) ==
    {e \in [REWARD_PERIOD_INDEX : PeriodInputs,
            GROUP_NAMESPACE     : NamespaceInputs,
            ADDRESS             : AddressInputs,
            SPECIFIC_BLOCK_HASH : PinnedInputs(c),
            INDEXER_URL         : IndexerInputs] :
        \/ ValidParameters(e)
        \/ e.SPECIFIC_BLOCK_HASH = Undefined /\ e.INDEXER_URL = Unset}

\* the indexer's answer to the GraphQL query
NoResponse == [kind |-> "none", events |-> << >>]

MainLocals ==
    [blockHash |-> Undefined, groupInfo |-> Null, periodInfo |-> Null,
     initialBlockHash |-> Undefined, eligibleRounds |-> 0, votes |-> 0,
     slaPercentage |-> 0, initialRewards |-> Undefined, finalRewards |-> Undefined]

Init ==
    /\ chain \in Chains
    /\ env \in EnvInputs(chain)
    /\ head = 0
    /\ pc = "create"
    /\ api = "none"
    /\ loc = NoLocals
    /\ main = MainLocals
    /\ error = NoError
    /\ report = << >>
    /\ reads = {}
    /\ failures = 0
    /\ storage = Null
    /\ hist = [validated |-> FALSE, indexer |-> NoResponse, degraded |-> FALSE,
               locatedBy |-> "none", initialBlock |-> "none",
               operatorQueryThrew |-> FALSE]

REWARD_PERIOD_INDEX == env.REWARD_PERIOD_INDEX.val

\* a query fails: always when it cannot succeed (forced), otherwise for a
\* transient reason
QueryFails(forced) ==
    /\ forced \/ failures < MaxFailures
    /\ failures' = IF forced THEN failures ELSE failures + 1

\* throw inside main()'s try block: the handler sees the error; the variables
\* declared in the try block are out of scope and the storage is not read again
Throw(e) ==
    /\ pc' = "catch"
    /\ error' = e
    /\ loc' = NoLocals
    /\ main' = MainLocals
    /\ storage' = Null

(***************************************************************************)
(* main(): connection.                                                      *)
(***************************************************************************)
\* const api = await ApiPromise.create(...), outside the try block
ApiCreate ==
    /\ pc = "create"
    /\ \/ /\ api' = "connected"
          /\ pc' = "isReady"
       \/ /\ api' = "none"
          /\ pc' = "rejected"
    /\ UNCHANGED <<env, chain, head, loc, main, error, report, reads, failures, hist, storage>>

\* await api.isReady
ApiIsReady ==
    /\ pc = "isReady"
    /\ \/ /\ pc' = "validateInput"
          /\ UNCHANGED <<error, loc, main, storage>>
       \/ Throw(Err("ConnectionFailed", "none"))
    /\ UNCHANGED <<env, chain, head, api, report, reads, failures, hist>>

(***************************************************************************)
(* validateInput(api)                                                       *)
(***************************************************************************)
\* the parameter checks
ValidateParameters ==
    /\ pc = "validateInput"
    /\ IF env.REWARD_PERIOD_INDEX.nan \/ env.REWARD_PERIOD_INDEX.val <= 0
       THEN Throw(Err("ValidationError", "REWARD_PERIOD_INDEX"))
       ELSE IF Falsy(env.GROUP_NAMESPACE) \/ Trim(env.GROUP_NAMESPACE) = ""
       THEN Throw(Err("ValidationError", "GROUP_NAMESPACE"))
       ELSE IF Falsy(env.ADDRESS) \/ Trim(env.ADDRESS) = ""
       THEN Throw(Err("ValidationError", "ADDRESS"))
       ELSE /\ pc' = "validateInput:activeRewardPeriodInfo"
            /\ loc' = [fn |-> "validateInput"]
            /\ UNCHANGED <<error, main, storage>>
    /\ UNCHANGED <<env, chain, head, api, report, reads, failures, hist>>

\* activeRewardPeriodInfo() at the head, then periodStartBlock
ValidateActivePeriod ==
    /\ pc = "validateInput:activeRewardPeriodInfo"
    /\ Log(Read("validateInput", "activeRewardPeriodInfo"))
    /\ \/ \E a \in head .. MaxAdvance :
            LET currentPeriod == ActivePeriod(a)
                periodsBack   == currentPeriod.index - REWARD_PERIOD_INDEX
                \* half a period more when the index is n + 0.5; the block
                \* number is then whole only for an even length
                halfPeriod    == IF env.REWARD_PERIOD_INDEX.half
                                 THEN currentPeriod.length \div 2 ELSE 0
                whole         == \/ ~env.REWARD_PERIOD_INDEX.half
                                 \/ currentPeriod.length % 2 = 0
            IN  /\ head' = a
                /\ loc' = [fn |-> "validateInput",
                           periodStartBlock |->
                               currentPeriod.firstBlock - periodsBack * currentPeriod.length
                                   + halfPeriod,
                           whole |-> whole]
                /\ pc' = "validateInput:getBlockHash"
                /\ UNCHANGED <<error, failures, main, storage>>
       \/ /\ QueryFails(FALSE)
          /\ Throw(Err("FailedToValidateSubscription", "QueryFailed"))
          /\ UNCHANGED head
    /\ UNCHANGED <<env, chain, api, report, hist>>

\* api.rpc.chain.getBlockHash(periodStartBlock)
ValidateGetBlockHash ==
    /\ pc = "validateInput:getBlockHash"
    /\ Log(Read("validateInput", "getBlockHash"))
    /\ \/ /\ loc.periodStartBlock >= 0
          /\ loc' = [fn |-> "validateInput",
                     periodBlockHash |-> getBlockHash(loc.periodStartBlock, head)]
          /\ pc' = "validateInput:solutionGroupStakeRecords"
          /\ UNCHANGED <<error, failures, main, storage>>
       \/ /\ QueryFails(loc.periodStartBlock < 0)
          /\ Throw(Err("FailedToValidateSubscription", "QueryFailed"))
       \/ \* a block number that is not an integer: the call rejects it, unless
          \* the number is truncated (the branch above)
          /\ ~loc.whole
          /\ Throw(Err("FailedToValidateSubscription", "QueryFailed"))
          /\ UNCHANGED failures
    /\ UNCHANGED <<env, chain, head, api, report, hist>>

\* what solutionGroupStakeRecords.at(...) may hold: nothing, or a map from the
\* period of the last update to the stake, in toHuman() form
NoStakeRecord == [isNone |-> TRUE, entries |-> << >>]
StakeRecord(entries) == [isNone |-> FALSE, entries |-> entries]

StakeRecordInputs ==
    {NoStakeRecord,
     StakeRecord(<< >>),
     StakeRecord(<< <<<<"0">>, <<"1", "0", "0">>>> >>),
     StakeRecord(<< <<<<"1">>, <<"1", "0", "0">>>> >>),
     StakeRecord(<< <<<<"1">>, <<"0">>>> >>),
     StakeRecord(<< <<<<"2">>, <<"1", ",", "0", "0", "0">>>> >>),
     StakeRecord(<< <<<<"3">>, <<"7">>>> >>),
     StakeRecord(<< <<<<"0">>, <<"7">>>>, <<<<"1">>, <<"0">>>> >>),
     StakeRecord(<< <<<<"1">>, <<"0">>>>, <<<<"2">>, <<"5">>>> >>),
     StakeRecord(<< <<<<"2">>, <<"5">>>>, <<<<"3">>, <<"0">>>> >>),
     StakeRecord(<< <<<<"1">>, <<"5">>>>, <<<<"4">>, <<"9">>>> >>)}

\* for (const [period, stake] of Object.entries(stakeRecordHuman)) { ... }
RECURSIVE ScanStakeRecord(_, _, _, _)
ScanStakeRecord(entries, i, lastUpdatePeriod, stakeValue) ==
    IF i > Len(entries)
    THEN [lastUpdatePeriod |-> lastUpdatePeriod, stakeValue |-> stakeValue]
    ELSE LET periodNum == parseInt(entries[i][1])
         IN  IF periodNum > lastUpdatePeriod
             THEN ScanStakeRecord(entries, i + 1, periodNum, ParseStake(entries[i][2]))
             ELSE ScanStakeRecord(entries, i + 1, lastUpdatePeriod, stakeValue)

\* solutionGroupStakeRecords.at(periodBlockHash, GROUP_NAMESPACE, ADDRESS) and the
\* decoding of the record
ValidateStakeRecord ==
    /\ pc = "validateInput:solutionGroupStakeRecords"
    /\ Log(Read("validateInput", "solutionGroupStakeRecords"))
    /\ \/ /\ Exists(loc.periodBlockHash, head)
          /\ \E stakeRecord \in StakeRecordInputs :
                LET scan == ScanStakeRecord(stakeRecord.entries, 1, 0, 0)
                IN  loc' = [fn |-> "validateInput",
                            stakeRecord      |-> stakeRecord,
                            lastUpdatePeriod |-> scan.lastUpdatePeriod,
                            stakeValue       |-> scan.stakeValue,
                            hasValidStake    |->
                                /\ ~stakeRecord.isNone
                                /\ REWARD_PERIOD_INDEX >= scan.lastUpdatePeriod
                                /\ scan.stakeValue > 0]
          /\ pc' = "validateInput:hasValidStake"
          /\ UNCHANGED <<error, failures, main, storage>>
       \/ /\ QueryFails(~Exists(loc.periodBlockHash, head))
          /\ Throw(Err("FailedToValidateSubscription", "QueryFailed"))
    /\ UNCHANGED <<env, chain, head, api, report, hist>>

\* variant: an invalid stake is logged and the run goes on
ValidateSubscriptionLogged ==
    /\ pc = "validateInput:hasValidStake"
    /\ pc' = "locate"
    /\ loc' = NoLocals
    /\ hist' = [hist EXCEPT !.validated = ~(loc.stakeRecord.isNone \/ ~loc.hasValidStake)]
    /\ UNCHANGED <<env, chain, head, api, main, error, report, reads, failures, storage>>

\* if (stakeRecord.isNone) throw ...; if (!hasValidStake) throw ...; return
ValidateSubscription ==
    /\ pc = "validateInput:hasValidStake"
    /\ IF loc.stakeRecord.isNone \/ ~loc.hasValidStake
       THEN /\ Throw(Err("NotSubscribed", "was not subscribed"))
            /\ UNCHANGED hist
       ELSE /\ pc' = "locate"
            /\ loc' = NoLocals
            /\ hist' = [hist EXCEPT !.validated = TRUE]
            /\ UNCHANGED <<error, main, storage>>
    /\ UNCHANGED <<env, chain, head, api, report, reads, failures>>

\* variant: only the pallet of the event is compared
IsWorkerNodePalletEvent(event, periodIndex) == event.section = "workerNodePallet"

(***************************************************************************)
(* Step 1 of main(): the block where RewardsCalculatedForPeriod was emitted *)
(***************************************************************************)
\* the event test of main() and of findBlockForPeriod()
IsRewardsCalculated(event, periodIndex) ==
    /\ event.section = "workerNodePallet"
    /\ event.method = "RewardsCalculatedForPeriod"
    /\ event.data = periodIndex

\* variant: the period argument of the event is not compared
HasRewardsCalculatedAnyPeriod(events, periodIndex) ==
    \E event \in events :
        event.section = "workerNodePallet" /\ event.method = "RewardsCalculatedForPeriod"

HasRewardsCalculated(events, periodIndex) ==
    \E event \in events : IsRewardsCalculated(event, periodIndex)

\* if (SPECIFIC_BLOCK_HASH) { ... }: the events of the given block are read and
\* the block is used only if the event of the period is among them
VerifySpecificBlockHash ==
    /\ pc = "locate"
    /\ env.SPECIFIC_BLOCK_HASH # Undefined
    /\ Log(Read("main", "system.events"))
    /\ \/ /\ Exists(env.SPECIFIC_BLOCK_HASH, head)
          /\ UNCHANGED failures
          /\ LET events == EventsAt(NumberOf(env.SPECIFIC_BLOCK_HASH))
             IN  IF HasRewardsCalculated(events, REWARD_PERIOD_INDEX)
                 THEN /\ main' = [main EXCEPT !.blockHash = env.SPECIFIC_BLOCK_HASH]
                      /\ hist' = [hist EXCEPT !.locatedBy = "SPECIFIC_BLOCK_HASH"]
                      /\ pc' = "getGroupInfo"
                      /\ UNCHANGED <<error, loc, storage>>
                 ELSE /\ Throw(Err("FailedToVerifySpecificBlock", "EventNotFoundInBlock"))
                      /\ UNCHANGED hist
       \/ /\ QueryFails(~Exists(env.SPECIFIC_BLOCK_HASH, head))
          /\ Throw(Err("FailedToVerifySpecificBlock", "QueryFailed"))
          /\ UNCHANGED hist
    /\ UNCHANGED <<env, chain, head, api, report>>

\* variant: the error of the indexer branch ends the run
FallBackFatal(cause) ==
    /\ pc' = "catch"
    /\ loc' = NoLocals
    /\ hist' = [hist EXCEPT !.degraded = TRUE]

\* the catch block of the indexer branch of main(): log, then findBlockForPeriod
FallBack(cause) ==
    /\ pc' = "fallback"
    /\ loc' = [fn |-> "main", indexerError |-> cause]
    /\ hist' = [hist EXCEPT !.degraded = TRUE]

\* block numbers the indexer may report, newest first, around the start of the
\* period after the requested one
NextPeriodStart == chain.firstBlock - (chain.index - REWARD_PERIOD_INDEX - 1) * chain.length

IndexerResponses ==
    {[kind |-> k, events |-> << >>] : k \in {"unreachable", "http", "graphql", "empty"}}
    \cup {[kind |-> "events", events |-> e] :
            e \in {<<NextPeriodStart + IndexerWindow + 1, NextPeriodStart + chain.length - 1,
                     NextPeriodStart>>,
                   <<NextPeriodStart + IndexerWindow + 1, NextPeriodStart - 1>>,
                   <<NextPeriodStart + IndexerWindow, NextPeriodStart>>}}

\* queryIndexerForRewardsBlock: fetch, response.ok, data.errors, empty result
QueryIndexer ==
    /\ pc = "locate"
    /\ env.SPECIFIC_BLOCK_HASH = Undefined
    /\ ~Falsy(env.INDEXER_URL)
    /\ Log(Read("queryIndexerForRewardsBlock", "fetch"))
    /\ \E response \in IndexerResponses :
          IF response.kind = "events"
          THEN /\ pc' = "queryIndexer:activeRewardPeriodInfo"
               /\ loc' = [fn |-> "queryIndexerForRewardsBlock", events |-> response.events]
               /\ hist' = [hist EXCEPT !.indexer = response]
          ELSE FallBack(response.kind)
    /\ UNCHANGED <<env, chain, head, api, main, error, report, failures, storage>>

\* variant: the upper end of the window is not tested
RECURSIVE FirstAtOrAfter(_, _, _, _)
FirstAtOrAfter(events, i, searchStartBlock, searchEndBlock) ==
    IF i > Len(events) THEN Undefined
    ELSE IF events[i] >= searchStartBlock
    THEN <<events[i]>>
    ELSE FirstAtOrAfter(events, i + 1, searchStartBlock, searchEndBlock)

\* for (const event of data.data.events) { if in [searchStartBlock, searchEndBlock] return }
RECURSIVE FirstInRange(_, _, _, _)
FirstInRange(events, i, searchStartBlock, searchEndBlock) ==
    IF i > Len(events) THEN Undefined
    ELSE IF events[i] >= searchStartBlock /\ events[i] <= searchEndBlock
    THEN <<events[i]>>
    ELSE FirstInRange(events, i + 1, searchStartBlock, searchEndBlock)

\* queryIndexerForRewardsBlock: the period bounds and the search of the result,
\* and main()'s test of the returned block number
QueryIndexerSearch ==
    /\ pc = "queryIndexer:activeRewardPeriodInfo"
    /\ Log(Read("queryIndexerForRewardsBlock", "activeRewardPeriodInfo"))
    /\ \/ \E a \in head .. MaxAdvance :
            LET currentPeriod        == ActivePeriod(a)
                periodLength         == currentPeriod.length
                periodStartBlock     == currentPeriod.firstBlock
                                        - (currentPeriod.index - REWARD_PERIOD_INDEX) * periodLength
                nextPeriodStartBlock == periodStartBlock + periodLength
                searchStartBlock     == nextPeriodStartBlock
                searchEndBlock       == searchStartBlock + IndexerWindow
                found == FirstInRange(loc.events, 1, searchStartBlock, searchEndBlock)
            IN  /\ head' = a
                /\ UNCHANGED failures
                /\ IF found = Undefined
                   THEN FallBack("no results within the period range")
                   ELSE IF found[1] = 0
                   THEN FallBack("no results within the period range")
                   ELSE /\ pc' = "main:getBlockHash(indexerBlockNumber)"
                        /\ loc' = [fn |-> "main", indexerBlockNumber |-> found[1]]
                        /\ UNCHANGED hist
       \/ /\ QueryFails(FALSE)
          /\ FallBack("QueryFailed")
          /\ UNCHANGED head
    /\ UNCHANGED <<env, chain, api, main, error, report, storage>>

\* blockHash = await api.rpc.chain.getBlockHash(indexerBlockNumber)
UseIndexerBlock ==
    /\ pc = "main:getBlockHash(indexerBlockNumber)"
    /\ Log(Read("main", "getBlockHash"))
    /\ \/ /\ loc.indexerBlockNumber >= 0
          /\ main' = [main EXCEPT !.blockHash = getBlockHash(loc.indexerBlockNumber, head)]
          /\ hist' = [hist EXCEPT !.locatedBy = "INDEXER_URL"]
          /\ pc' = "getGroupInfo"
          /\ loc' = NoLocals
          /\ UNCHANGED failures
       \/ /\ QueryFails(loc.indexerBlockNumber < 0)
          /\ FallBack("QueryFailed")
          /\ UNCHANGED main
    /\ UNCHANGED <<env, chain, head, api, error, report, storage>>

(***************************************************************************)
(* findBlockForPeriod(api, periodIndex)                                     *)
(***************************************************************************)
\* if (periodIndex > currentPeriod.index) throw ...
IsFuturePeriod(periodIndex, currentPeriod) == periodIndex > currentPeriod.index

\* variant: the next period is never found unfinished
NeverUnfinished(periodIndex, currentPeriod) == FALSE

\* if (nextPeriodIndex > currentPeriod.index) throw ...
IsNotFinalized(periodIndex, currentPeriod) == periodIndex + 1 > currentPeriod.index

\* step 1 and the bounds of the next period
FindBlockActivePeriod ==
    /\ \/ pc = "fallback"
       \/ /\ pc = "locate"
          /\ env.SPECIFIC_BLOCK_HASH = Undefined
          /\ Falsy(env.INDEXER_URL)
    /\ Log(Read("findBlockForPeriod", "activeRewardPeriodInfo"))
    /\ \/ \E a \in head .. MaxAdvance :
            LET periodIndex               == REWARD_PERIOD_INDEX
                currentPeriod             == ActivePeriod(a)
                requestedPeriodStartBlock ==
                    currentPeriod.firstBlock
                    - (currentPeriod.index - periodIndex) * currentPeriod.length
                nextPeriodStartBlock      == requestedPeriodStartBlock + currentPeriod.length
                nextPeriodEndBlock        == nextPeriodStartBlock + currentPeriod.length - 1
                previousPeriodIndex       == periodIndex - 1
                locals ==
                    [fn |-> "findBlockForPeriod",
                     requestedPeriodStartBlock |-> requestedPeriodStartBlock,
                     nextPeriodStartBlock |-> nextPeriodStartBlock,
                     nextPeriodEndBlock |-> nextPeriodEndBlock,
                     previousPeriodEndHash |-> Undefined,
                     startBlock |-> nextPeriodStartBlock,
                     blockNumber |-> nextPeriodStartBlock,
                     totalSystemVotingRounds |-> 0,
                     unread |-> {}]
            IN  /\ head' = a
                /\ UNCHANGED failures
                /\ IF IsFuturePeriod(periodIndex, currentPeriod)
                   THEN Throw(Err("FuturePeriod", "none"))
                   ELSE IF IsNotFinalized(periodIndex, currentPeriod)
                   THEN Throw(Err("CurrentPeriodNotFinalized", "none"))
                   ELSE /\ loc' = locals
                        /\ pc' = IF previousPeriodIndex >= 0
                                 THEN "findBlock:getBlockHash(previousPeriodEndBlock)"
                                 ELSE "findBlock:scan"
                        /\ UNCHANGED <<error, main, storage>>
       \/ /\ QueryFails(FALSE)
          /\ Throw(Err("QueryFailed", "activeRewardPeriodInfo"))
          /\ UNCHANGED head
    /\ UNCHANGED <<env, chain, api, report, hist>>

\* api.rpc.chain.getBlockHash(previousPeriodEndBlock)
FindBlockPreviousPeriodEnd ==
    /\ pc = "findBlock:getBlockHash(previousPeriodEndBlock)"
    /\ LET previousPeriodEndBlock == loc.requestedPeriodStartBlock - 1
       IN  /\ Log(Read("findBlockForPeriod", "getBlockHash"))
           /\ \/ /\ previousPeriodEndBlock >= 0
                 /\ loc' = [loc EXCEPT !.previousPeriodEndHash =
                                            getBlockHash(previousPeriodEndBlock, head)]
                 /\ pc' = "findBlock:systemVotingRound"
                 /\ UNCHANGED <<error, failures, main, storage>>
              \/ /\ QueryFails(previousPeriodEndBlock < 0)
                 /\ Throw(Err("StartBlockSearchFailed", "QueryFailed"))
    /\ UNCHANGED <<env, chain, head, api, report, hist>>

\* numbers of SystemVotingRound entries a period may have
VotingRoundCounts == {0, 1, PeriodLength}

\* variant: the start is not brought back into the next period
ScanStartUnclamped(nextPeriodStartBlock, nextPeriodEndBlock, totalSystemVotingRounds) ==
    nextPeriodStartBlock + totalSystemVotingRounds

\* startBlock = nextPeriodStartBlock + totalSystemVotingRounds;
\* if (startBlock > nextPeriodEndBlock) startBlock = nextPeriodStartBlock
ScanStart(nextPeriodStartBlock, nextPeriodEndBlock, totalSystemVotingRounds) ==
    LET startBlock == nextPeriodStartBlock + totalSystemVotingRounds
    IN  IF startBlock > nextPeriodEndBlock THEN nextPeriodStartBlock ELSE startBlock

\* systemVotingRound.entriesAt(previousPeriodEndHash, previousPeriodIndex) and the
\* start of the scan
FindBlockCountVotingRounds ==
    /\ pc = "findBlock:systemVotingRound"
    /\ LET previousPeriodEndHash == loc.previousPeriodEndHash
       IN  /\ Log(Read("findBlockForPeriod", "systemVotingRound"))
           /\ \/ /\ Exists(previousPeriodEndHash, head)
                 /\ \E totalSystemVotingRounds \in VotingRoundCounts :
                       LET start == ScanStart(loc.nextPeriodStartBlock,
                                              loc.nextPeriodEndBlock,
                                              totalSystemVotingRounds)
                       IN  loc' = [loc EXCEPT !.startBlock = start, !.blockNumber = start,
                                              !.totalSystemVotingRounds =
                                                  totalSystemVotingRounds]
                 /\ pc' = "findBlock:scan"
                 /\ UNCHANGED <<error, failures, main, storage>>
              \/ /\ QueryFails(~Exists(previousPeriodEndHash, head))
                 /\ Throw(Err("StartBlockSearchFailed", "QueryFailed"))
    /\ UNCHANGED <<env, chain, head, api, report, hist>>

\* variant: a block whose query failed is tried again
Retry(blockNumber) == blockNumber

\* continue: the loop goes on with blockNumber++
Continue(blockNumber) == blockNumber + 1

\* one iteration of the scan: getBlockHash(blockNumber), events.at(blockHash)
FindBlockScan ==
    /\ pc = "findBlock:scan"
    /\ loc.blockNumber <= loc.nextPeriodEndBlock
    /\ LET blockNumber == loc.blockNumber
           blockHash   == getBlockHash(blockNumber, head)
           \* the loop goes on with the next block
           skip == /\ loc' = [loc EXCEPT !.blockNumber = blockNumber + 1]
                   /\ UNCHANGED <<pc, main, hist>>
           \* catch (error) { ...; continue }: the block stays unread
           continue == /\ loc' = [loc EXCEPT !.blockNumber = Continue(blockNumber),
                                             !.unread = @ \cup {blockNumber}]
                       /\ UNCHANGED <<pc, main, hist>>
       IN  \/ \* getBlockHash throws: the block is skipped
              /\ QueryFails(blockNumber < 0)
              /\ Log(Read("findBlockForPeriod", "getBlockHash"))
              /\ continue
           \/ /\ blockNumber >= 0
              /\ reads' = reads
                     \cup {Read("findBlockForPeriod", "getBlockHash"),
                          Read("findBlockForPeriod", "system.events")}
              /\ \/ \* events.at throws: the block is skipped
                    /\ QueryFails(~Exists(blockHash, head))
                    /\ continue
                 \/ /\ Exists(blockHash, head)
                    /\ UNCHANGED failures
                    /\ IF HasRewardsCalculated(EventsAt(blockNumber), REWARD_PERIOD_INDEX)
                       THEN /\ main' = [main EXCEPT !.blockHash = blockHash]
                            /\ hist' = [hist EXCEPT !.locatedBy = "findBlockForPeriod"]
                            /\ pc' = "getGroupInfo"
                            /\ loc' = NoLocals
                       ELSE skip
    /\ UNCHANGED <<env, chain, head, api, error, report, storage>>

\* variant: the error names the whole next period instead of the scanned range
FindBlockNotFoundWholePeriod ==
    /\ pc = "findBlock:scan"
    /\ loc.blockNumber > loc.nextPeriodEndBlock
    /\ Throw([kind |-> "EventNotFound", cause |-> "none",
              periodIndex |-> REWARD_PERIOD_INDEX,
              range |-> <<loc.nextPeriodStartBlock, loc.nextPeriodEndBlock>>])
    /\ UNCHANGED <<env, chain, head, api, report, reads, failures, hist>>

\* the scan ended without a match
FindBlockNotFound ==
    /\ pc = "findBlock:scan"
    /\ loc.blockNumber > loc.nextPeriodEndBlock
    /\ Throw([kind |-> "EventNotFound", cause |-> "none",
              periodIndex |-> REWARD_PERIOD_INDEX,
              range |-> <<loc.startBlock, loc.nextPeriodEndBlock>>])
    /\ UNCHANGED <<env, chain, head, api, report, reads, failures, hist>>

(***************************************************************************)
(* Step 2 of main(): group and period information at the distribution block *)
(***************************************************************************)
\* slaVotingThreshold of a group, in hundredths of a percent: "60.00%" is 6000
Thresholds == {5700, 6000}

\* the group as the distribution block holds it
GroupInfo == [namespace |-> env.GROUP_NAMESPACE, slaVotingThreshold |-> Max(Thresholds)]

\* getGroupInfo(api, GROUP_NAMESPACE, blockHash)
GetGroupInfo ==
    /\ pc = "getGroupInfo"
    /\ Log(Read("getGroupInfo", "solutionsGroups"))
    /\ \/ /\ Exists(main.blockHash, head)
          /\ main' = [main EXCEPT !.groupInfo = GroupInfo]
          /\ pc' = "getPeriodInfo"
          /\ loc' = [fn |-> "getGroupInfo"]
          /\ UNCHANGED <<error, failures, storage>>
       \/ \* the group does not exist at the block: unwrap() throws
          /\ Exists(main.blockHash, head)
          /\ Throw(Err("FailedToGetGroupInfo", "GroupNotFound"))
          /\ UNCHANGED failures
       \/ /\ QueryFails(~Exists(main.blockHash, head))
          /\ Throw(Err("FailedToGetGroupInfo", "QueryFailed"))
    /\ UNCHANGED <<env, chain, head, api, report, hist>>

\* variant: the end of a period is the first block of the next one
PeriodInfoEndExclusive(periodIndex, currentPeriod) ==
    LET periodsBack      == currentPeriod.index - periodIndex
        periodStartBlock == currentPeriod.firstBlock - periodsBack * currentPeriod.length
    IN  [index |-> periodIndex, start |-> periodStartBlock,
         end |-> periodStartBlock + currentPeriod.length,
         length |-> currentPeriod.length, firstBlock |-> periodStartBlock]

\* variant: every period starts where the active period starts
PeriodInfoOfActive(periodIndex, currentPeriod) ==
    [index |-> periodIndex, start |-> currentPeriod.firstBlock,
     end |-> currentPeriod.firstBlock + currentPeriod.length - 1,
     length |-> currentPeriod.length, firstBlock |-> currentPeriod.firstBlock]

\* the bounds getPeriodInfo computes from the period active at the block
PeriodInfo(periodIndex, currentPeriod) ==
    LET periodsBack      == currentPeriod.index - periodIndex
        periodStartBlock == currentPeriod.firstBlock - periodsBack * currentPeriod.length
        periodEndBlock   == periodStartBlock + currentPeriod.length - 1
    IN  [index |-> periodIndex, start |-> periodStartBlock, end |-> periodEndBlock,
         length |-> currentPeriod.length, firstBlock |-> periodStartBlock]

\* getPeriodInfo(api, REWARD_PERIOD_INDEX, blockHash)
GetPeriodInfo ==
    /\ pc = "getPeriodInfo"
    /\ Log(Read("getPeriodInfo", "activeRewardPeriodInfo"))
    /\ \/ /\ Exists(main.blockHash, head)
          /\ main' = [main EXCEPT !.periodInfo =
                         PeriodInfo(REWARD_PERIOD_INDEX, PeriodAt(NumberOf(main.blockHash)))]
          /\ pc' = "findBefore:getHeader"
          /\ loc' = [fn |-> "getPeriodInfo"]
          /\ UNCHANGED <<error, failures, storage>>
       \/ /\ QueryFails(~Exists(main.blockHash, head))
          /\ Throw(Err("FailedToGetPeriodInfo", "QueryFailed"))
    /\ UNCHANGED <<env, chain, head, api, report, hist>>

(***************************************************************************)
(* Step 3: findBlockBeforeRewardsCalculated(api, rewardsCalculatedBlockHash) *)
(***************************************************************************)
\* api.rpc.chain.getHeader(rewardsCalculatedBlockHash)
FindBeforeGetHeader ==
    /\ pc = "findBefore:getHeader"
    /\ Log(Read("findBlockBeforeRewardsCalculated", "getHeader"))
    /\ \/ /\ Exists(main.blockHash, head)
          /\ loc' = [fn |-> "findBlockBeforeRewardsCalculated",
                     blockNumber |-> NumberOf(main.blockHash), i |-> 1,
                     lastBlockWithEvent |-> Undefined, initialBlockHash |-> Undefined]
          /\ pc' = "findBefore:loop"
          /\ UNCHANGED <<error, failures, main, storage>>
       \/ /\ QueryFails(~Exists(main.blockHash, head))
          /\ Throw(Err("FailedToFindInitialBlock", "QueryFailed"))
    /\ UNCHANGED <<env, chain, head, api, report, hist>>

HasEarnedRewardCalculated(events) ==
    \E event \in events : event.method = "EarnedRewardCalculated"

\* the walk stopping at the first block that holds the event
FindBeforeStopsAtEvent ==
    /\ loc.i <= searchRange
    /\ loc.blockNumber - loc.i >= 0
    /\ loc.initialBlockHash = Undefined
    /\ loc.lastBlockWithEvent = Undefined

\* the loop goes on: i <= searchRange, no break yet
FindBeforeContinues ==
    /\ loc.i <= searchRange
    /\ loc.blockNumber - loc.i >= 0
    /\ loc.initialBlockHash = Undefined

\* one iteration: getBlockHash(blockNumber - i), events.at(checkBlockHash)
FindBeforeCheck ==
    /\ pc = "findBefore:loop"
    /\ FindBeforeContinues
    /\ LET checkBlockNumber == loc.blockNumber - loc.i
           checkBlockHash   == getBlockHash(checkBlockNumber, head)
           getHash == Read("findBlockBeforeRewardsCalculated", "getBlockHash")
           getEvents == Read("findBlockBeforeRewardsCalculated", "system.events")
       IN  \/ \* getBlockHash throws: continue
              /\ QueryFails(FALSE)
              /\ Log(getHash)
              /\ loc' = [loc EXCEPT !.i = loc.i + 1]
           \/ \* events.at throws: continue
              /\ QueryFails(~Exists(checkBlockHash, head))
              /\ reads' = reads \cup {getHash, getEvents}
              /\ loc' = [loc EXCEPT !.i = loc.i + 1]
           \/ /\ Exists(checkBlockHash, head)
              /\ UNCHANGED failures
              /\ reads' = reads \cup {getHash, getEvents}
              /\ IF HasEarnedRewardCalculated(EventsAt(checkBlockNumber))
                 THEN loc' = [loc EXCEPT !.lastBlockWithEvent = checkBlockHash,
                                         !.i = loc.i + 1]
                 ELSE loc' = [loc EXCEPT !.initialBlockHash = checkBlockHash]
    /\ UNCHANGED <<env, chain, head, pc, api, main, error, report, hist, storage>>

\* the fallback taking the distribution block itself
FallbackIsDistributionBlock(blockNumber) == blockNumber

\* the block of the fallback: getBlockHash(blockNumber - 1)
FallbackBlock(blockNumber) == blockNumber - 1

\* after the loop: the block without the event, else the last block with it,
\* else the block before the distribution block
FindBeforeReturn ==
    /\ pc = "findBefore:loop"
    /\ ~FindBeforeContinues
    /\ IF loc.initialBlockHash # Undefined
       THEN /\ main' = [main EXCEPT !.initialBlockHash = loc.initialBlockHash]
            /\ hist' = [hist EXCEPT !.initialBlock = "no EarnedRewardCalculated event"]
            /\ pc' = "getEligibleRounds"
            /\ UNCHANGED <<error, loc, reads, failures, storage>>
       ELSE IF loc.lastBlockWithEvent # Undefined
       THEN /\ main' = [main EXCEPT !.initialBlockHash = loc.lastBlockWithEvent]
            /\ hist' = [hist EXCEPT !.initialBlock = "last block with event"]
            /\ pc' = "getEligibleRounds"
            /\ UNCHANGED <<error, loc, reads, failures, storage>>
       ELSE /\ Log(Read("findBlockBeforeRewardsCalculated", "getBlockHash"))
            /\ \/ /\ FallbackBlock(loc.blockNumber) >= 0
                  /\ main' = [main EXCEPT !.initialBlockHash =
                                 getBlockHash(FallbackBlock(loc.blockNumber), head)]
                  /\ hist' = [hist EXCEPT !.initialBlock = "fallback"]
                  /\ pc' = "getEligibleRounds"
                  /\ UNCHANGED <<error, loc, failures, storage>>
               \/ /\ QueryFails(FallbackBlock(loc.blockNumber) < 0)
                  /\ Throw(Err("FailedToFindInitialBlock", "QueryFailed"))
                  /\ UNCHANGED hist
    /\ UNCHANGED <<env, chain, head, api, report>>

(***************************************************************************)
(* Step 4 of main(): the state at the initial and at the distribution block *)
(***************************************************************************)
\* initialBlockHash || blockHash
InitialBlock ==
    IF main.initialBlockHash # Undefined THEN main.initialBlockHash ELSE main.blockHash

\* a BN from its decimal digits in groups of six, most significant first
RECURSIVE Reverse(_)
Reverse(seq) == IF seq = << >> THEN << >> ELSE Reverse(Tail(seq)) \o <<Head(seq)>>

Big(groups) == [neg |-> FALSE, mag |-> Strip(Reverse(groups))]

\* earnedRewards of an address in a group: [subscription, voting]
EarlierRewards == <<Big(<<7, 982644, 892450, 463358>>), Big(<<30, 299138, 28873, 89534>>)>>
LaterRewards == <<Big(<<8, 206437, 276591, 532332>>), Big(<<31, 834395, 275802, 910556>>)>>
RewardInputs == {EarlierRewards, LaterRewards}

Voting(numberOfVotings, withNomination, operator, value) ==
    [numberOfVotings |-> numberOfVotings, withNomination |-> withNomination,
     operator |-> operator, value |-> value]

\* what the storage of the initial block may hold for the period, the group and
\* the address: numberOfVotings, numberOfVotingsWithNomination and the optional
\* numberOfOperatorVotingsWithNomination, the votes of the address, the
\* threshold of the group and the rewards earned so far
StorageInputs ==
    {[voting |-> v[1], votes |-> v[2], slaVotingThreshold |-> v[3], earnedRewards |-> v[4]] :
        v \in {<<Voting(100, 51, "Some", 0), 61, 6000, EarlierRewards>>,
               <<Voting(100, 20, "Some", 7), 61, 6000, EarlierRewards>>,
               <<Voting(100, 0, "None", 0), 57, 5700, EarlierRewards>>,
               <<Voting(100, 51, "unavailable", 0), 29, 6000, LaterRewards>>,
               <<Voting(10, 12, "Some", 2), 61, 5700, LaterRewards>>,
               <<Voting(0, 0, "unavailable", 0), 0, 6000, EarlierRewards>>}}

\* the counters as getEligibleRounds holds them when the query of
\* numberOfOperatorVotingsWithNomination threw
OperatorQueryFailed(v) == [v EXCEPT !.operator = "unavailable"]

\* the count without the operator's own nominated rounds
TotalEligibleRoundsWithoutOperator(v) == v.numberOfVotings - v.withNomination

\* total_eligible_rounds of getEligibleRounds
TotalEligibleRounds(v) ==
    LET operatorVotingsWithNomination == IF v.operator = "Some" THEN v.value ELSE 0
    IN  v.numberOfVotings - (v.withNomination - operatorVotingsWithNomination)

\* getEligibleRounds(api, REWARD_PERIOD_INDEX, GROUP_NAMESPACE, initialBlockHash || blockHash)
GetEligibleRounds ==
    /\ pc = "getEligibleRounds"
    /\ reads' = reads
           \cup {Read("getEligibleRounds", "numberOfVotings"),
                Read("getEligibleRounds", "numberOfVotingsWithNomination"),
                Read("getEligibleRounds", "numberOfOperatorVotingsWithNomination")}
    /\ \/ /\ Exists(InitialBlock, head)
          /\ \E s \in StorageInputs :
                /\ storage' = s
                /\ main' = [main EXCEPT !.eligibleRounds = TotalEligibleRounds(s.voting)]
                \* a counter the runtime of the block does not have: the query throws
                /\ hist' = [hist EXCEPT !.operatorQueryThrew =
                                            s.voting.operator = "unavailable"]
          /\ loc' = [fn |-> "getEligibleRounds"]
          /\ pc' = "getVotesForAddress"
          /\ UNCHANGED <<error, failures>>
       \/ \* the query of numberOfOperatorVotingsWithNomination fails: the inner
          \* catch leaves null and the count goes on with 0
          /\ Exists(InitialBlock, head)
          /\ QueryFails(FALSE)
          /\ \E s \in StorageInputs :
                /\ storage' = s
                /\ main' = [main EXCEPT !.eligibleRounds =
                               TotalEligibleRounds(OperatorQueryFailed(s.voting))]
          /\ hist' = [hist EXCEPT !.operatorQueryThrew = TRUE]
          /\ loc' = [fn |-> "getEligibleRounds"]
          /\ pc' = "getVotesForAddress"
          /\ UNCHANGED error
       \/ /\ QueryFails(~Exists(InitialBlock, head))
          /\ Throw(Err("FailedToGetEligibleRounds", "QueryFailed"))
          /\ UNCHANGED hist
    /\ UNCHANGED <<env, chain, head, api, report>>

\* getVotesForAddress(api, REWARD_PERIOD_INDEX, GROUP_NAMESPACE, ADDRESS, ...)
GetVotesForAddress ==
    /\ pc = "getVotesForAddress"
    /\ Log(Read("getVotesForAddress", "voteMetadata"))
    /\ \/ /\ Exists(InitialBlock, head)
          /\ main' = [main EXCEPT !.votes = storage.votes]
          /\ loc' = [fn |-> "getVotesForAddress"]
          /\ pc' = "getSlaThreshold"
          /\ UNCHANGED <<error, failures, storage>>
       \/ /\ QueryFails(~Exists(InitialBlock, head))
          /\ Throw(Err("FailedToGetVotes", "QueryFailed"))
    /\ UNCHANGED <<env, chain, head, api, report, hist>>

\* getSlaThreshold(api, REWARD_PERIOD_INDEX, GROUP_NAMESPACE, initialBlockHash || blockHash)
GetSlaThreshold ==
    /\ pc = "getSlaThreshold"
    /\ Log(Read("getSlaThreshold", "solutionsGroups"))
    /\ \/ /\ Exists(InitialBlock, head)
          /\ main' = [main EXCEPT !.slaPercentage = storage.slaVotingThreshold]
          /\ loc' = [fn |-> "getSlaThreshold"]
          /\ pc' = "getRewardsForAddress(initial)"
          /\ UNCHANGED <<error, failures, storage>>
       \/ \* the group does not exist at the block
          /\ Exists(InitialBlock, head)
          /\ Throw(Err("FailedToGetSlaThreshold", "GroupNotFound"))
          /\ UNCHANGED failures
       \/ /\ QueryFails(~Exists(InitialBlock, head))
          /\ Throw(Err("FailedToGetSlaThreshold", "QueryFailed"))
    /\ UNCHANGED <<env, chain, head, api, report, hist>>

\* getRewardsForAddress(..., initialBlockHash): the rewards before the distribution
GetInitialRewards ==
    /\ pc = "getRewardsForAddress(initial)"
    /\ Log(Read("getRewardsForAddress", "earnedRewards.at(initialBlockHash)"))
    /\ \/ /\ Exists(main.initialBlockHash, head)
          /\ main' = [main EXCEPT !.initialRewards = storage.earnedRewards]
          /\ loc' = [fn |-> "getRewardsForAddress"]
          /\ pc' = "getRewardsForAddress(final)"
          /\ UNCHANGED <<error, failures, storage>>
       \/ /\ QueryFails(~Exists(main.initialBlockHash, head))
          /\ Throw(Err("FailedToGetInitialRewards", "QueryFailed"))
    /\ UNCHANGED <<env, chain, head, api, report, hist>>

\* getRewardsForAddress(..., blockHash): the rewards after the distribution
GetFinalRewards ==
    /\ pc = "getRewardsForAddress(final)"
    /\ Log(Read("getRewardsForAddress", "earnedRewards.at(blockHash)"))
    /\ \/ /\ Exists(main.blockHash, head)
          /\ \E earnedRewards \in RewardInputs :
                main' = [main EXCEPT !.finalRewards = earnedRewards]
          /\ loc' = [fn |-> "getRewardsForAddress"]
          /\ pc' = "getAllGroupsSystemVotingRoundsCount"
          /\ UNCHANGED <<error, failures, storage>>
       \/ /\ QueryFails(~Exists(main.blockHash, head))
          /\ Throw(Err("FailedToGetFinalRewards", "QueryFailed"))
    /\ UNCHANGED <<env, chain, head, api, report, hist>>

\* getAllGroupsSystemVotingRoundsCount(api, REWARD_PERIOD_INDEX, blockHash):
\* getPeriodInfo, getBlockHash(periodInfo.end), systemVotingRound.entriesAt
GetAllGroupsSystemVotingRoundsCount ==
    /\ pc = "getAllGroupsSystemVotingRoundsCount"
    /\ LET periodInfo == PeriodInfo(REWARD_PERIOD_INDEX, PeriodAt(NumberOf(main.blockHash)))
           lastBlockOfPeriod == periodInfo.end
           lastBlockHash == getBlockHash(lastBlockOfPeriod, head)
           first == Read("getPeriodInfo", "activeRewardPeriodInfo")
           second == Read("getAllGroupsSystemVotingRoundsCount", "getBlockHash")
           third == Read("getAllGroupsSystemVotingRoundsCount", "systemVotingRound")
       IN  \/ /\ Exists(main.blockHash, head)
              /\ lastBlockOfPeriod >= 0
              /\ Exists(lastBlockHash, head)
              /\ reads' = reads \cup {first, second, third}
              /\ loc' = [fn |-> "getAllGroupsSystemVotingRoundsCount"]
              /\ pc' = "report"
              /\ UNCHANGED <<error, failures, main, storage>>
           \/ /\ QueryFails(~Exists(main.blockHash, head))
              /\ reads' = reads \cup {first}
              /\ Throw(Err("FailedToGetTotalSystemVotingRounds", "QueryFailed"))
           \/ /\ Exists(main.blockHash, head)
              /\ QueryFails(lastBlockOfPeriod < 0)
              /\ reads' = reads \cup {first, second}
              /\ Throw(Err("FailedToGetTotalSystemVotingRounds", "QueryFailed"))
           \/ /\ Exists(main.blockHash, head)
              /\ lastBlockOfPeriod >= 0
              /\ QueryFails(~Exists(lastBlockHash, head))
              /\ reads' = reads \cup {first, second, third}
              /\ Throw(Err("FailedToGetTotalSystemVotingRounds", "QueryFailed"))
    /\ UNCHANGED <<env, chain, head, api, report, hist>>

(***************************************************************************)
(* Period rewards, SLA check and step 5: the report                         *)
(***************************************************************************)
\* variant: a negative difference is reported as zero
PeriodRewardsClamped(initialRewards, finalRewards) ==
    LET Clamp(x) == IF x.neg THEN BNZero ELSE x
    IN  <<Clamp(BNSub(finalRewards[1], initialRewards[1])),
          Clamp(BNSub(finalRewards[2], initialRewards[2]))>>

\* periodRewards = [finalRewards[0].sub(initialRewards[0]), finalRewards[1].sub(initialRewards[1])]
PeriodRewards(initialRewards, finalRewards) ==
    <<BNSub(finalRewards[1], initialRewards[1]), BNSub(finalRewards[2], initialRewards[2])>>

\* voteRatio = (votes / eligibleRounds) * 100
VoteRatio(votes, eligibleRounds) == FMul100(FDiv(votes, eligibleRounds))

\* the threshold compared against: parseFloat(slaPercentage.replace("%", ""))
SlaThresholdNumber(slaPercentage) == ParseFloatHundredths(slaPercentage)

\* variant: without eligible rounds the ratio is zero and the SLA is missed
SlaCheckZeroRatio(eligibleRounds, votes, slaPercentage) ==
    IF eligibleRounds # 0
    THEN LET voteRatio == VoteRatio(votes, eligibleRounds)
         IN  [voteRatio |-> voteRatio,
              meetsSla  |-> IF FGe(voteRatio, SlaThresholdNumber(slaPercentage))
                            THEN "true" ELSE "false"]
    ELSE [voteRatio |-> DZero(FALSE), meetsSla |-> "false"]

\* voteRatio and meetsSla; both stay null when eligibleRounds is 0
SlaCheck(eligibleRounds, votes, slaPercentage) ==
    IF eligibleRounds # 0
    THEN LET voteRatio == VoteRatio(votes, eligibleRounds)
         IN  [voteRatio |-> voteRatio,
              meetsSla  |-> IF FGe(voteRatio, SlaThresholdNumber(slaPercentage))
                            THEN "true" ELSE "false"]
    ELSE [voteRatio |-> Null, meetsSla |-> "null"]

\* an amount in EWT: whole tokens, and for period rewards six decimals of the
\* remainder
EWT(amount) == BNDivLimbs(amount, 3)
Decimals(amount) == BNDivLimbs(BNModLimbs(amount, 3), 2)

\* the lines of the report
ReportOf(periodRewards, sla) ==
    [rewardPeriodIndex |-> REWARD_PERIOD_INDEX,
     groupNamespace    |-> env.GROUP_NAMESPACE,
     address           |-> env.ADDRESS,
     periodInfo        |-> main.periodInfo,
     groupInfo         |-> main.groupInfo,
     eligibleRounds    |-> main.eligibleRounds,
     votesSubmitted    |-> main.votes,
     slaThreshold      |-> main.slaPercentage,
     voteRatio         |-> IF sla.voteRatio = Null THEN "N/A (insufficient data)" ELSE "number",
     voteRatioValue    |-> sla.voteRatio,
     meetsSla          |-> IF sla.voteRatio = Null THEN "N/A"
                           ELSE IF sla.meetsSla = "true" THEN "YES" ELSE "NO",
     initialRewards    |-> main.initialRewards,
     initialEWT        |-> <<EWT(main.initialRewards[1]), EWT(main.initialRewards[2])>>,
     finalRewards      |-> main.finalRewards,
     finalEWT          |-> <<EWT(main.finalRewards[1]), EWT(main.finalRewards[2])>>,
     periodRewards     |-> periodRewards,
     periodEWT         |-> <<EWT(periodRewards[1]), EWT(periodRewards[2])>>,
     periodDecimals    |-> <<Decimals(periodRewards[1]), Decimals(periodRewards[2])>>]

\* lines 983-1116: period rewards, SLA check and the report, without an await
Report ==
    /\ pc = "report"
    /\ LET periodRewards == PeriodRewards(main.initialRewards, main.finalRewards)
           sla == SlaCheck(main.eligibleRounds, main.votes, main.slaPercentage)
       IN  report' = <<ReportOf(periodRewards, sla)>>
    /\ pc' = "finally"
    /\ loc' = NoLocals
    /\ UNCHANGED <<env, chain, head, api, main, error, reads, failures, hist, storage>>

\* variant: the handler prints what the run had gathered
CatchReportsPartial ==
    /\ pc = "catch"
    /\ pc' = "finally"
    /\ report' = <<[rewardPeriodIndex |-> REWARD_PERIOD_INDEX]>>
    /\ UNCHANGED <<env, chain, head, api, loc, main, error, reads, failures, hist, storage>>

\* catch (error) { console.error(...) }
Catch ==
    /\ pc = "catch"
    /\ pc' = "finally"
    /\ UNCHANGED <<env, chain, head, api, loc, main, error, report, reads, failures, hist, storage>>

\* variant: the connection is left open
FinallyWithoutDisconnect ==
    /\ pc = "finally"
    /\ pc' = "done"
    /\ UNCHANGED <<env, chain, head, api, loc, main, error, report, reads, failures, hist,
                   storage>>

\* finally { await api.disconnect() }
Finally ==
    /\ pc = "finally"
    /\ api' = "disconnected"
    /\ pc' = "done"
    /\ UNCHANGED <<env, chain, head, loc, main, error, report, reads, failures, hist, storage>>

\* the steps that wait for the node or the indexer, and those around them
Request ==
    \/ ApiCreate
    \/ ApiIsReady
    \/ ValidateParameters
    \/ ValidateActivePeriod
    \/ ValidateGetBlockHash
    \/ ValidateStakeRecord
    \/ ValidateSubscription
    \/ VerifySpecificBlockHash
    \/ QueryIndexer
    \/ QueryIndexerSearch
    \/ UseIndexerBlock
    \/ FindBlockActivePeriod
    \/ FindBlockPreviousPeriodEnd
    \/ FindBlockCountVotingRounds
    \/ FindBlockScan
    \/ FindBlockNotFound
    \/ GetGroupInfo
    \/ GetPeriodInfo
    \/ FindBeforeGetHeader
    \/ FindBeforeCheck
    \/ FindBeforeReturn
    \/ GetEligibleRounds
    \/ GetVotesForAddress
    \/ GetSlaThreshold
    \/ GetInitialRewards
    \/ GetFinalRewards
    \/ GetAllGroupsSystemVotingRoundsCount
    \/ Catch
    \/ Finally

Next == Request \/ Report

Spec == Init /\ [][Next]_vars

(***************************************************************************)
(* Properties of the run                                                    *)
(***************************************************************************)
Pinned == env.SPECIFIC_BLOCK_HASH # Undefined
IndexerRun == ~Pinned /\ ~Falsy(env.INDEXER_URL)
Ended == pc \in {"catch", "finally", "done"}
IssuedBy(fns) == {r \in reads : r.fn \in fns}
Reported == report # << >>

\* the block given in SPECIFIC_BLOCK_HASH exists and none of its events is the
\* RewardsCalculatedForPeriod event of the requested period
PinnedBlockMismatch ==
    /\ Pinned
    /\ Exists(env.SPECIFIC_BLOCK_HASH, head)
    /\ \A event \in EventsAt(NumberOf(env.SPECIFIC_BLOCK_HASH)) :
          ~IsRewardsCalculated(event, REWARD_PERIOD_INDEX)

\* C1: when the pinned block holds no RewardsCalculatedForPeriod event of the
\* requested period, the run ends with the failed-to-verify error of the pinned
\* block, no block is located, and neither the indexer nor findBlockForPeriod
\* is ever asked anything.
C1_PinnedMismatchIsFatal ==
    PinnedBlockMismatch =>
        /\ IssuedBy({"queryIndexerForRewardsBlock", "findBlockForPeriod"}) = {}
        /\ Read("main", "getBlockHash") \notin reads
        /\ hist.locatedBy = "none"
        /\ main.blockHash = Undefined
        /\ ~Reported
        /\ Read("main", "system.events") \in reads =>
              Ended /\ error.kind = "FailedToVerifySpecificBlock"

C1_Witness ==
    /\ PinnedBlockMismatch
    /\ ~Falsy(env.INDEXER_URL)
    /\ pc = "done"
    /\ error = Err("FailedToVerifySpecificBlock", "EventNotFoundInBlock")

\* the block is one findBlockForPeriod can return: a block of the period after
\* the requested one that holds the event of the requested period
FoundByScan(hash) ==
    /\ Exists(hash, head)
    /\ NumberOf(hash) >= NextPeriodStart
    /\ NumberOf(hash) <= NextPeriodStart + chain.length - 1
    /\ \E event \in EventsAt(NumberOf(hash)) : IsRewardsCalculated(event, REWARD_PERIOD_INDEX)

\* C2: once the indexer has been queried, either its block is used or the run
\* has degraded: the failure raises no error, findBlockForPeriod is called, and
\* a distribution block, if there is one, is the block findBlockForPeriod found.
C2_IndexerFailureDegrades ==
    (/\ IndexerRun
     /\ Read("queryIndexerForRewardsBlock", "fetch") \in reads
     /\ pc \notin {"queryIndexer:activeRewardPeriodInfo",
                   "main:getBlockHash(indexerBlockNumber)"}) =>
        \/ ~hist.degraded /\ hist.locatedBy = "INDEXER_URL"
        \/ /\ hist.degraded
           /\ pc = "fallback" =>
                 /\ error = NoError
                 /\ main.blockHash = Undefined
                 /\ loc.indexerError \in {"unreachable", "http", "graphql", "empty",
                                          "no results within the period range",
                                          "QueryFailed"}
           /\ pc # "fallback" =>
                 Read("findBlockForPeriod", "activeRewardPeriodInfo") \in reads
           /\ main.blockHash # Undefined =>
                 hist.locatedBy = "findBlockForPeriod" /\ FoundByScan(main.blockHash)

C2_Witness ==
    /\ IndexerRun
    /\ hist.degraded
    /\ hist.indexer.kind = "none"
    /\ hist.locatedBy = "findBlockForPeriod"
    /\ pc = "done"
    /\ Reported

\* the first entry of the indexer's list inside [nextPeriodStart, nextPeriodStart + 2000]
InWindow(b) == b >= NextPeriodStart /\ b <= NextPeriodStart + IndexerWindow

FirstInWindow(events) ==
    LET inside == {i \in 1 .. Len(events) : InWindow(events[i])}
    IN  IF inside = {} THEN Undefined ELSE <<events[Min(inside)]>>

IndexerHasBlockInWindow ==
    /\ IndexerRun
    /\ hist.indexer.kind = "events"
    /\ FirstInWindow(hist.indexer.events) # Undefined

IndexerBlock == getBlockHash(FirstInWindow(hist.indexer.events)[1], head)

\* C3 as stated: an entry inside the window means that the distribution block
\* is the first such entry and that findBlockForPeriod is never called.
C3_AsStated ==
    IndexerHasBlockInWindow =>
        /\ IssuedBy({"findBlockForPeriod"}) = {}
        /\ main.blockHash # Undefined => main.blockHash = IndexerBlock

\* C3: with an entry inside the window, the run leaves the indexer branch for
\* findBlockForPeriod only because one of the branch's own chain reads failed;
\* otherwise findBlockForPeriod is never called and the distribution block is
\* the hash of the first entry inside the window.
C3_FirstEntryInWindow ==
    IndexerHasBlockInWindow =>
        /\ pc = "fallback" => loc.indexerError = "QueryFailed"
        /\ hist.degraded => failures > 0
        /\ ~hist.degraded =>
              /\ IssuedBy({"findBlockForPeriod"}) = {}
              /\ main.blockHash # Undefined =>
                    main.blockHash = IndexerBlock /\ hist.locatedBy = "INDEXER_URL"

C3_Witness ==
    /\ IndexerHasBlockInWindow
    /\ ~InWindow(hist.indexer.events[1])
    /\ hist.locatedBy = "INDEXER_URL"
    /\ main.blockHash = IndexerBlock
    /\ Reported

\* C4: a request made by anything but validateInput means that validateInput
\* has returned, and a run that validateInput ended has made no other request.
C4_ValidationIsTheGate ==
    /\ reads # IssuedBy({"validateInput"}) => hist.validated
    /\ error.kind \in {"ValidationError", "FailedToValidateSubscription", "NotSubscribed"} =>
          ~hist.validated /\ reads = IssuedBy({"validateInput"})

C4_Witness ==
    /\ pc = "done"
    /\ error.kind = "NotSubscribed"
    /\ Read("validateInput", "solutionGroupStakeRecords") \in reads
    /\ reads = IssuedBy({"validateInput"})

\* the ledger as the specification reads it: lastUpdatePeriod is the greatest
\* key of the ledger and stakeValue the stake recorded under that key
LedgerKeys(entries) == {parseInt(entries[i][1]) : i \in 1 .. Len(entries)}

StakeAtLastUpdate(entries) ==
    LET i == CHOOSE i \in 1 .. Len(entries) : parseInt(entries[i][1]) = Max(LedgerKeys(entries))
    IN  ParseStake(entries[i][2])

SubscribedByLedger(stakeRecord, targetIndex) ==
    /\ ~stakeRecord.isNone
    /\ stakeRecord.entries # << >>
    /\ targetIndex >= Max(LedgerKeys(stakeRecord.entries))
    /\ StakeAtLastUpdate(stakeRecord.entries) > 0

\* C5 as stated: the subscription is found valid exactly when the ledger exists,
\* the requested period is not before the ledger's last update and the stake of
\* that update is positive; otherwise the run ends with the not-subscribed error.
C5_AsStated ==
    /\ pc = "validateInput:hasValidStake" =>
          (loc.hasValidStake <=> SubscribedByLedger(loc.stakeRecord, REWARD_PERIOD_INDEX))
    /\ error.kind = "NotSubscribed" => ~hist.validated

\* the positions of main() in program order, and the steps a run can still take
\* from its position: every step moves on in this order, or on in a loop
Positions ==
    <<"create", "isReady", "validateInput", "validateInput:activeRewardPeriodInfo",
      "validateInput:getBlockHash", "validateInput:solutionGroupStakeRecords",
      "validateInput:hasValidStake", "locate", "queryIndexer:activeRewardPeriodInfo",
      "main:getBlockHash(indexerBlockNumber)", "fallback",
      "findBlock:getBlockHash(previousPeriodEndBlock)", "findBlock:systemVotingRound",
      "findBlock:scan", "getGroupInfo", "getPeriodInfo", "findBefore:getHeader",
      "findBefore:loop", "getEligibleRounds", "getVotesForAddress", "getSlaThreshold",
      "getRewardsForAddress(initial)", "getRewardsForAddress(final)",
      "getAllGroupsSystemVotingRoundsCount", "report", "catch", "finally", "done",
      "rejected">>

Position == CHOOSE i \in 1 .. Len(Positions) : Positions[i] = pc

IterationsLeft ==
    IF pc = "findBlock:scan" THEN Max({0, loc.nextPeriodEndBlock - loc.blockNumber + 1})
    ELSE IF pc = "findBefore:loop"
    THEN (searchRange + 1 - loc.i) + (IF loc.initialBlockHash = Undefined THEN 1 ELSE 0)
    ELSE 0

StepsLeft ==
    (Len(Positions) - Position) * (searchRange + chain.length + 2) + IterationsLeft

\* C6: a run that has connected to the node disconnects before it ends: while
\* the connection is open the run has a next step, every step brings the run
\* nearer to its end, and at its end the connection is closed.
C6_ConnectionReleased ==
    /\ [](api = "connected" => pc = "report" \/ ENABLED Request)
    /\ [](pc = "done" => api = "disconnected")
    /\ [][StepsLeft' < StepsLeft /\ StepsLeft' >= 0]_vars

C6_Witness ==
    /\ api = "disconnected"
    /\ pc = "done"
    /\ error.kind = "EventNotFound"
    /\ hist.validated

SnapshotReads ==
    {Read("getGroupInfo", "solutionsGroups"),
     Read("getPeriodInfo", "activeRewardPeriodInfo"),
     Read("findBlockBeforeRewardsCalculated", "getHeader"),
     Read("getEligibleRounds", "numberOfVotings"),
     Read("getEligibleRounds", "numberOfVotingsWithNomination"),
     Read("getEligibleRounds", "numberOfOperatorVotingsWithNomination"),
     Read("getVotesForAddress", "voteMetadata"),
     Read("getSlaThreshold", "solutionsGroups"),
     Read("getRewardsForAddress", "earnedRewards.at(initialBlockHash)"),
     Read("getRewardsForAddress", "earnedRewards.at(blockHash)"),
     Read("getAllGroupsSystemVotingRoundsCount", "systemVotingRound")}

IsDifference(difference, final, initial) ==
    IF difference.neg
    THEN difference.mag # << >> /\ MagAdd(final.mag, difference.mag) = initial.mag
    ELSE MagAdd(initial.mag, difference.mag) = final.mag

\* C8: each component of the reported period rewards is the final total minus
\* the initial total, negative when the final total is the smaller one; the
\* totals of the example give (223792384141068974, 1535257246929821022).
C8_PeriodRewardsAreTheDifference ==
    Reported =>
        /\ \A i \in {1, 2} :
              IsDifference(report[1].periodRewards[i], report[1].finalRewards[i],
                           report[1].initialRewards[i])
        /\ (report[1].initialRewards = EarlierRewards /\ report[1].finalRewards = LaterRewards) =>
              report[1].periodRewards =
                  <<Big(<<223792, 384141, 68974>>), Big(<<1, 535257, 246929, 821022>>)>>

C8_Witness ==
    /\ Reported
    /\ report[1].initialRewards = LaterRewards
    /\ report[1].finalRewards = EarlierRewards
    /\ report[1].periodRewards[1].neg
    /\ report[1].periodRewards[2].neg

\* C9 as stated: with eligible rounds, the SLA is met exactly when
\* votes / eligibleRounds * 100 is at least the threshold read at the initial
\* block (the threshold is in hundredths of a percent).
C9_AsStated ==
    (Reported /\ report[1].eligibleRounds # 0) =>
        /\ report[1].slaThreshold = storage.slaVotingThreshold
        /\ report[1].meetsSla \in {"YES", "NO"}
        /\ report[1].meetsSla = "YES" <=>
              IF report[1].eligibleRounds > 0
              THEN report[1].votesSubmitted * 10000
                       >= report[1].slaThreshold * report[1].eligibleRounds
              ELSE report[1].votesSubmitted * 10000
                       <= report[1].slaThreshold * report[1].eligibleRounds

\* C10: with no eligible round the report shows the ratio and the SLA verdict
\* as N/A, no ratio is computed, and the run ends without an error.
C10_NoEligibleRounds ==
    (Reported /\ report[1].eligibleRounds = 0) =>
        /\ report[1].voteRatio = "N/A (insufficient data)"
        /\ report[1].voteRatioValue = Null
        /\ report[1].meetsSla = "N/A"
        /\ error = NoError

C10_Witness ==
    /\ Reported
    /\ pc = "done"
    /\ report[1].eligibleRounds = 0
    /\ report[1].votesSubmitted > 0
    /\ report[1].meetsSla = "N/A"

(***************************************************************************)
(* Period bounds                                                            *)
(***************************************************************************)
\* the requested period lies after the period that was active at the last read
\* of the active period descriptor
FutureTarget == REWARD_PERIOD_INDEX > ActivePeriod(head).index

\* C11 as stated: no block hash is asked for, and no block is scanned, with a
\* block number computed for a period after the active one; such a run ends
\* with the future-period error instead.
C11_AsStated ==
    /\ (pc = "validateInput:solutionGroupStakeRecords" /\ loc.fn = "validateInput")
          => ~FutureTarget
    /\ pc \in {"findBlock:getBlockHash(previousPeriodEndBlock)",
               "findBlock:systemVotingRound", "findBlock:scan"} => ~FutureTarget
    /\ (error.kind = "FailedToValidateSubscription"
          /\ Read("validateInput", "getBlockHash") \in reads) => ~FutureTarget

(***************************************************************************)
(* Strategy C: findBlockForPeriod                                           *)
(***************************************************************************)
ScanPositions ==
    {"findBlock:getBlockHash(previousPeriodEndBlock)", "findBlock:systemVotingRound",
     "findBlock:scan"}

\* the period after the requested one has not ended its predecessor: the
\* requested period is the active one, or later
Unfinished == REWARD_PERIOD_INDEX + 1 > ActivePeriod(head).index

\* C12: when the period after the requested one is not yet the active period at
\* most, findBlockForPeriod reads nothing but the active period descriptor: it
\* never gets to the voting-round count or to a block's events, and the run ends
\* with the not-yet-finalized error.
C12_NotFinalizedBeforeAnyScan ==
    /\ pc \in ScanPositions => ~Unfinished
    /\ error.kind = "CurrentPeriodNotFinalized" =>
          /\ Unfinished
          /\ IssuedBy({"findBlockForPeriod"}) =
                 {Read("findBlockForPeriod", "activeRewardPeriodInfo")}
          /\ ~Reported
    /\ (Ended /\ Unfinished /\ IssuedBy({"findBlockForPeriod"}) # {}) =>
          \/ error.kind = "CurrentPeriodNotFinalized"
          \/ error = Err("QueryFailed", "activeRewardPeriodInfo")

C12_Witness ==
    /\ pc = "done"
    /\ error.kind = "CurrentPeriodNotFinalized"
    /\ REWARD_PERIOD_INDEX = ActivePeriod(head).index
    /\ hist.validated

\* block b exists and its events hold RewardsCalculatedForPeriod(REWARD_PERIOD_INDEX)
Matches(b) ==
    /\ Exists(HashOf(b), head)
    /\ HasRewardsCalculated(EventsAt(b), REWARD_PERIOD_INDEX)

\* block b matches and the scan could read its events
Yields(b) == Matches(b) /\ b \notin loc.unread

\* C13: the scan passes only blocks that yield no matching event, returns the
\* hash of the first block of [startBlock, nextPeriodEndBlock] that yields one
\* (blocks whose query failed are passed, the run goes on), and ends with the
\* not-found error, naming the requested period and the scanned range, only when
\* no block of the range yielded one.
C13_ScanReturnsFirstMatch ==
    /\ [](pc = "findBlock:scan" =>
            /\ loc.unread \subseteq loc.startBlock .. loc.blockNumber - 1
            /\ \A b \in loc.startBlock .. loc.blockNumber - 1 : ~Yields(b))
    /\ [][pc = "findBlock:scan" =>
            /\ pc' \in {"findBlock:scan", "getGroupInfo", "catch"}
            /\ pc' = "getGroupInfo" =>
                  /\ loc.blockNumber \in loc.startBlock .. loc.nextPeriodEndBlock
                  /\ Yields(loc.blockNumber)
                  /\ main'.blockHash = HashOf(loc.blockNumber)
            /\ pc' = "catch" =>
                  /\ error'.kind = "EventNotFound"
                  /\ error'.periodIndex = REWARD_PERIOD_INDEX
                  /\ error'.range = <<loc.startBlock, loc.nextPeriodEndBlock>>
                  /\ \A b \in loc.startBlock .. loc.nextPeriodEndBlock : ~Yields(b)]_vars

\* the scan is about to return a block after it passed an earlier block that
\* holds the event but could not be read
C13_Witness ==
    /\ pc = "findBlock:scan"
    /\ \E b \in loc.unread : Matches(b)
    /\ loc.blockNumber <= loc.nextPeriodEndBlock
    /\ Matches(loc.blockNumber)

(***************************************************************************)
(* The bounds of a period, as a function of the active period descriptor.   *)
(* Descriptors and requested periods are drawn from bounded sets and the    *)
(* computations of getPeriodInfo and findBlockForPeriod are applied.        *)
(***************************************************************************)
\* activeRewardPeriodInfo.toJSON(): { index, firstBlock, length }, length > 0
Descriptors ==
    {[index |-> i, firstBlock |-> f, length |-> l] :
        i \in 0 .. CurrentIndex,
        f \in 0 .. CurrentIndex * PeriodLength,
        l \in 1 .. PeriodLength}

\* requestedPeriodStartBlock, nextPeriodStartBlock and nextPeriodEndBlock of
\* findBlockForPeriod
NextPeriodBounds(periodIndex, currentPeriod) ==
    LET requestedPeriodStartBlock ==
            currentPeriod.firstBlock
            - (currentPeriod.index - periodIndex) * currentPeriod.length
        nextPeriodStartBlock == requestedPeriodStartBlock + currentPeriod.length
        nextPeriodEndBlock   == nextPeriodStartBlock + currentPeriod.length - 1
    IN  [requestedStart |-> requestedPeriodStartBlock,
         start |-> nextPeriodStartBlock, end |-> nextPeriodEndBlock]

BoundsInit ==
    /\ chain \in {[length |-> d.length, index |-> d.index, firstBlock |-> d.firstBlock,
                   distOffs |-> {}, earnedLen |-> 0] : d \in Descriptors}
    /\ env = [REWARD_PERIOD_INDEX |-> Num(1), GROUP_NAMESPACE |-> "smartflow.v2",
              ADDRESS |-> "5D2csUmB", SPECIFIC_BLOCK_HASH |-> Undefined,
              INDEXER_URL |-> Unset]
    /\ head = 0
    /\ pc = "periodBounds"
    /\ api = "none"
    /\ loc = NoLocals
    /\ main = MainLocals
    /\ error = NoError
    /\ report = << >>
    /\ reads = {}
    /\ failures = 0
    /\ storage = Null
    /\ hist = [validated |-> FALSE, indexer |-> NoResponse, degraded |-> FALSE,
               locatedBy |-> "none", initialBlock |-> "none",
               operatorQueryThrew |-> FALSE]

\* the bounds of two periods up to the active one, from one descriptor
PeriodBounds ==
    /\ pc = "periodBounds"
    /\ \E targetIndex1, targetIndex2 \in 0 .. ActivePeriod(0).index :
          loc' = [fn |-> "periodBounds",
                  current |-> ActivePeriod(0),
                  first  |-> PeriodInfo(targetIndex1, ActivePeriod(0)),
                  second |-> PeriodInfo(targetIndex2, ActivePeriod(0)),
                  next   |-> NextPeriodBounds(targetIndex1, ActivePeriod(0))]
    /\ pc' = "periodBounds:done"
    /\ UNCHANGED <<env, chain, head, api, main, error, report, reads, failures,
                   storage, hist>>

BoundsNext == PeriodBounds

BoundsSpec == BoundsInit /\ [][BoundsNext]_vars

\* C14: the bounds of an earlier period end before the bounds of a later period
\* start; for consecutive periods the later one starts right after the earlier
\* one ends, which is also where findBlockForPeriod puts the next period.
C14_BoundsDisjointAndOrdered ==
    pc = "periodBounds:done" =>
        /\ loc.first.index < loc.second.index => loc.first.end < loc.second.start
        /\ loc.second.index = loc.first.index + 1 =>
              /\ loc.second.start = loc.first.end + 1
              /\ loc.next.start = loc.second.start
              /\ loc.next.end = loc.second.end
        /\ loc.next.requestedStart = loc.first.start
        /\ loc.next.start = loc.first.end + 1

C14_Witness ==
    /\ pc = "periodBounds:done"
    /\ loc.current.length > 1
    /\ loc.first.index + 1 < loc.second.index
    /\ loc.first.end + 1 < loc.second.start

\* C15: the bounds of a period up to the active one start at
\* firstBlock - (index - targetIndex) * length and span exactly one length.
C15_BoundsSpanOneLength ==
    pc = "periodBounds:done" =>
        \A b \in {loc.first, loc.second} :
            /\ b.start = loc.current.firstBlock
                           - (loc.current.index - b.index) * loc.current.length
            /\ b.end - b.start + 1 = loc.current.length
            /\ b.length = loc.current.length

C15_Witness ==
    /\ pc = "periodBounds:done"
    /\ loc.first.index < loc.current.index
    /\ loc.current.length > 1
    /\ loc.first.end - loc.first.start + 1 = loc.current.length

(***************************************************************************)
(* The analysis as a function of the two blocks                             *)
(***************************************************************************)
\* the values of the analysis for the state s of the initial block and the
\* rewards finalRewards held at the distribution block
AnalysisOf(s, finalRewards) ==
    LET eligibleRounds == TotalEligibleRounds(s.voting)
        sla == SlaCheck(eligibleRounds, s.votes, s.slaVotingThreshold)
    IN  [eligibleRounds |-> eligibleRounds,
         votes          |-> s.votes,
         voteRatio      |-> sla.voteRatio,
         meetsSla       |-> IF sla.voteRatio = Null THEN "N/A"
                            ELSE IF sla.meetsSla = "true" THEN "YES" ELSE "NO",
         initialRewards |-> s.earnedRewards,
         finalRewards   |-> finalRewards,
         periodRewards  |-> PeriodRewards(s.earnedRewards, finalRewards)]

\* the same values as a run reported them
Reported_Analysis ==
    [eligibleRounds |-> report[1].eligibleRounds,
     votes          |-> report[1].votesSubmitted,
     voteRatio      |-> report[1].voteRatioValue,
     meetsSla       |-> report[1].meetsSla,
     initialRewards |-> report[1].initialRewards,
     finalRewards   |-> report[1].finalRewards,
     periodRewards  |-> report[1].periodRewards]

\* C16 as stated: what a run reports is determined by the state of the chain at
\* its initial block and at its distribution block, so that two runs on the same
\* blocks report the same values however far the head has moved.
C16_AsStated ==
    Reported => Reported_Analysis = AnalysisOf(storage, report[1].finalRewards)

(***************************************************************************)
(* Parameter validation                                                     *)
(***************************************************************************)
\* the reward period index is missing, not a number, not positive or not an
\* integer, or the namespace or the address is missing or blank
InvalidParameters ==
    \/ env.REWARD_PERIOD_INDEX.nan
    \/ env.REWARD_PERIOD_INDEX.val <= 0
    \/ env.REWARD_PERIOD_INDEX.half
    \/ Falsy(env.GROUP_NAMESPACE) \/ Trim(env.GROUP_NAMESPACE) = ""
    \/ Falsy(env.ADDRESS) \/ Trim(env.ADDRESS) = ""

\* C17 as stated: with an invalid parameter no chain read is ever issued and a
\* run that got its connection ends with the validation error.
C17_AsStated ==
    InvalidParameters =>
        /\ reads = {}
        /\ ~Reported
        /\ error.kind \in {"none", "ValidationError", "ConnectionFailed"}

(***************************************************************************)
(* The scan of the stake ledger                                             *)
(***************************************************************************)
\* C18 as stated: after the scan of a ledger that is not empty, lastUpdatePeriod
\* is the greatest key of the ledger and stakeValue is the stake recorded under
\* that key, also when the greatest key is period 0.
C18_AsStated ==
    (/\ pc = "validateInput:hasValidStake"
     /\ ~loc.stakeRecord.isNone
     /\ loc.stakeRecord.entries # << >>) =>
        /\ loc.lastUpdatePeriod = Max(LedgerKeys(loc.stakeRecord.entries))
        /\ loc.stakeValue = StakeAtLastUpdate(loc.stakeRecord.entries)

(***************************************************************************)
(* Strategy C: the start of the scan                                        *)
(***************************************************************************)
\* C19: the voting rounds of the period before the requested one are counted at
\* the last block of that period; the scan starts at the first block of the next
\* period plus the count, or at that first block when the sum lies beyond the
\* last block of the next period, and so always inside the next period.
C19_ScanStartInsideNextPeriod ==
    /\ pc = "findBlock:systemVotingRound" =>
          loc.previousPeriodEndHash =
              getBlockHash(PeriodInfo(REWARD_PERIOD_INDEX - 1, ActivePeriod(head)).end, head)
    /\ pc = "findBlock:scan" =>
          LET next  == PeriodInfo(REWARD_PERIOD_INDEX + 1, ActivePeriod(head))
              count == loc.totalSystemVotingRounds
          IN  /\ Read("findBlockForPeriod", "systemVotingRound") \in reads
              /\ loc.nextPeriodStartBlock = next.start
              /\ loc.nextPeriodEndBlock = next.end
              /\ loc.startBlock = IF next.start + count > next.end
                                  THEN next.start ELSE next.start + count
              /\ next.start <= loc.startBlock /\ loc.startBlock <= next.end

\* the count of voting rounds led beyond the next period and the scan starts at
\* the first block of the next period
C19_Witness ==
    /\ pc = "findBlock:scan"
    /\ loc.totalSystemVotingRounds > 0
    /\ loc.nextPeriodStartBlock + loc.totalSystemVotingRounds > loc.nextPeriodEndBlock
    /\ loc.startBlock = loc.nextPeriodStartBlock

(***************************************************************************)
(* Strategy C: the scan ends                                                *)
(***************************************************************************)
\* C20: the scan is entered once, at its start block; every iteration reads the
\* block after the one read before, whether the read failed or not, and none
\* follows the iteration that found the event; the blocks read are blocks of
\* [startBlock, nextPeriodEndBlock], which has at most one period length.
C20_ScanTerminates ==
    /\ [](pc = "findBlock:scan" =>
            /\ loc.startBlock <= loc.blockNumber
            /\ loc.blockNumber <= loc.nextPeriodEndBlock + 1
            /\ loc.nextPeriodEndBlock - loc.startBlock + 1 <= ActivePeriod(head).length)
    /\ [](hist.locatedBy = "findBlockForPeriod" => pc \notin ScanPositions)
    /\ [][pc = "findBlock:scan" =>
            \/ /\ pc' = "findBlock:scan"
               /\ loc.blockNumber <= loc.nextPeriodEndBlock
               /\ loc'.blockNumber = loc.blockNumber + 1
               /\ loc'.startBlock = loc.startBlock
               /\ loc'.nextPeriodEndBlock = loc.nextPeriodEndBlock
            \/ /\ pc' = "getGroupInfo"
               /\ hist'.locatedBy = "findBlockForPeriod"
            \/ /\ pc' = "catch"
               /\ loc.blockNumber = loc.nextPeriodEndBlock + 1]_vars
    /\ [][(pc # "findBlock:scan" /\ pc' = "findBlock:scan") =>
            /\ pc = "findBlock:systemVotingRound"
            /\ loc'.blockNumber = loc'.startBlock]_vars

\* a whole period was scanned, one of its blocks could not be read, and the scan
\* is over
C20_Witness ==
    /\ pc = "findBlock:scan"
    /\ loc.startBlock = loc.nextPeriodStartBlock
    /\ loc.blockNumber = loc.nextPeriodEndBlock + 1
    /\ loc.blockNumber - loc.startBlock = ActivePeriod(head).length
    /\ \E b \in loc.unread : Exists(HashOf(b), head)

(***************************************************************************)
(* Step 3: the initial block                                                *)
(***************************************************************************)
\* findBlockBeforeRewardsCalculated has returned and its locals are still there
InitialBlockLocated ==
    pc = "getEligibleRounds" /\ loc.fn = "findBlockBeforeRewardsCalculated"

\* the blocks the backward walk may examine: up to searchRange blocks before the
\* distribution block d
WalkWindow(d) == Max({0, d - searchRange}) .. d - 1

\* block b holds no EarnedRewardCalculated event
Pristine(b) == ~HasEarnedRewardCalculated(EventsAt(b))

\* C21 as stated: when a block without an EarnedRewardCalculated event lies in
\* the 50 blocks before the distribution block, the initial block is the closest
\* such block and every block between it and the distribution block holds the
\* event.
C21_AsStated ==
    (InitialBlockLocated /\ \E b \in WalkWindow(loc.blockNumber) : Pristine(b)) =>
        LET d == loc.blockNumber
            n == NumberOf(main.initialBlockHash)
        IN  /\ n \in WalkWindow(d)
            /\ Pristine(n)
            /\ \A b \in n + 1 .. d - 1 : ~Pristine(b)

\* the console line that tells which branch produced the initial block
\* (lines 382, 388 and 395)
Degraded == hist.initialBlock = "last block with event"

\* C22: when every block of the backward window holds an EarnedRewardCalculated
\* event and at least one of them could be read, the initial block is the
\* oldest block read (the oldest block of the window when no read failed), it
\* holds the event, and the result is announced by the warning of line 388,
\* which is printed for no block without the event.
C22_AllEventsGivesOldestDegraded ==
    InitialBlockLocated =>
        LET d == loc.blockNumber
            n == NumberOf(main.initialBlockHash)
            oldest == Max({0, d - searchRange})
        IN  /\ ( /\ \A b \in WalkWindow(d) : ~Pristine(b)
                 /\ loc.lastBlockWithEvent # Undefined ) =>
                   /\ Degraded
                   /\ n \in WalkWindow(d)
                   /\ n - oldest <= failures
            /\ Degraded => ~Pristine(n) /\ loc.initialBlockHash = Undefined
            /\ hist.initialBlock = "no EarnedRewardCalculated event" => Pristine(n)

\* the whole window of searchRange blocks held the event
C22_Witness ==
    /\ InitialBlockLocated
    /\ Degraded
    /\ loc.i = searchRange + 1
    /\ NumberOf(main.initialBlockHash) = loc.blockNumber - searchRange
    /\ \A b \in WalkWindow(loc.blockNumber) : ~Pristine(b)

\* findBlockBeforeRewardsCalculated(api, blockHash) on its own: every
\* distribution block from the genesis block on, before and after a run of
\* blocks that hold the EarnedRewardCalculated event
WalkInit ==
    /\ chain \in {Chain(f, {0}, k) : f \in 0 .. CurrentIndex * PeriodLength,
                                      k \in 0 .. PeriodLength}
    /\ env = [REWARD_PERIOD_INDEX |-> Num(1), GROUP_NAMESPACE |-> "smartflow.v2",
              ADDRESS |-> "5D2csUmB", SPECIFIC_BLOCK_HASH |-> Undefined,
              INDEXER_URL |-> Unset]
    /\ head = 0
    /\ pc = "findBefore:getHeader"
    /\ api = "connected"
    /\ loc = NoLocals
    /\ \E d \in 0 .. chain.firstBlock + 1 :
          main = [MainLocals EXCEPT !.blockHash = HashOf(d)]
    /\ error = NoError
    /\ report = << >>
    /\ reads = {}
    /\ failures = 0
    /\ storage = Null
    /\ hist = [validated |-> FALSE, indexer |-> NoResponse, degraded |-> FALSE,
               locatedBy |-> "none", initialBlock |-> "none",
               operatorQueryThrew |-> FALSE]

WalkNext == FindBeforeGetHeader \/ FindBeforeCheck \/ FindBeforeReturn

WalkSpec == WalkInit /\ [][WalkNext]_vars

\* the walk has ended and has found neither a block without the event nor a
\* block with it
FoundNeither ==
    /\ pc = "findBefore:loop"
    /\ ~FindBeforeContinues
    /\ loc.initialBlockHash = Undefined
    /\ loc.lastBlockWithEvent = Undefined

C24_EligibleRoundsFormula ==
    storage # Null =>
        LET v == storage.voting
            absent == v.operator # "Some" \/ hist.operatorQueryThrew
        IN  /\ error = NoError
            /\ {Read("getEligibleRounds", "numberOfVotings"),
                Read("getEligibleRounds", "numberOfVotingsWithNomination"),
                Read("getEligibleRounds", "numberOfOperatorVotingsWithNomination")}
                  \subseteq reads
            /\ ~absent => main.eligibleRounds =
                              v.numberOfVotings - (v.withNomination - v.value)
            /\ absent => main.eligibleRounds = v.numberOfVotings - v.withNomination

\* a block whose operator counter is Some(7) and whose query was rejected, and
\* the run goes on to the votes with 100 - 20 rounds
C24_Witness ==
    /\ pc = "getVotesForAddress"
    /\ storage # Null
    /\ storage.voting = Voting(100, 20, "Some", 7)
    /\ hist.operatorQueryThrew
    /\ main.eligibleRounds = 80
    /\ error = NoError

\* C25 as stated: a period start that is below block 0 or is not a whole
\* number is rejected when the bounds are computed: it is never passed to
\* getBlockHash by validateInput and never returned by getPeriodInfo.
C25_AsStated ==
    /\ pc = "validateInput:getBlockHash" =>
          loc.periodStartBlock >= 0 /\ loc.whole
    /\ main.periodInfo # Null =>
          main.periodInfo.start >= 0 /\ main.periodInfo.end >= 0

\* C26 as stated: once the subscription is validated, the later steps of the
\* run (the indexer window, the chain scan) work with the period descriptor
\* that validation read, also when the chain has advanced to a new active
\* period in between.
C26_AsStated ==
    [][hist.validated => ActivePeriod(head') = ActivePeriod(head)]_vars

\* C27: a distribution block that the pinned hash (Strategy A) or the chain scan
\* (Strategy C) has produced holds a workerNodePallet RewardsCalculatedForPeriod
\* event whose first argument is the target period; the steps after the
\* location work with no other block from these two strategies.
C27_LocatedBlockHoldsTheEvent ==
    (/\ hist.locatedBy \in {"SPECIFIC_BLOCK_HASH", "findBlockForPeriod"}
     /\ main.blockHash # Undefined) =>
        /\ \E event \in EventsAt(NumberOf(main.blockHash)) :
              /\ event.section = "workerNodePallet"
              /\ event.method = "RewardsCalculatedForPeriod"
              /\ event.data = REWARD_PERIOD_INDEX
        /\ env.SPECIFIC_BLOCK_HASH # Undefined =>
              /\ hist.locatedBy = "SPECIFIC_BLOCK_HASH"
              /\ main.blockHash = env.SPECIFIC_BLOCK_HASH

\* the initial block has been located from a verified pinned block
C27_Witness ==
    /\ InitialBlockLocated
    /\ hist.locatedBy = "SPECIFIC_BLOCK_HASH"
    /\ main.blockHash = env.SPECIFIC_BLOCK_HASH
    /\ main.initialBlockHash # Undefined

\* C28 as stated: every block number the backward walk asks for, and the one it
\* returns, lies in max(0, d - 50) .. d - 1 for the distribution block d, also
\* for d = 0.
C28_AsStated ==
    LET d == loc.blockNumber
    IN  /\ (pc = "findBefore:loop" /\ FindBeforeContinues) =>
               d - loc.i \in WalkWindow(d)
        /\ FoundNeither => FallbackBlock(d) \in WalkWindow(d)
        /\ InitialBlockLocated => NumberOf(main.initialBlockHash) \in WalkWindow(d)

====
